---- MODULE Spec2Model ----
(***************************************************************************)
(* Radiology reporting assistant (src/app.py): template store, report      *)
(* assembly, quality audit, differential suggestions and Word export.      *)
(* Texts are character strings; every text operation is computed on the    *)
(* characters, as the Python code computes it.                             *)
(***************************************************************************)
EXTENDS Integers, Sequences, FiniteSets, TLC

VARIABLES
    current_user,         \* st.session_state.current_user
    templates,            \* TemplateSystem.templates: name -> template record
    templates_file,       \* contents of saved_templates.json
    call,                 \* the last TemplateSystem call made: operation and arguments
    ret,                  \* the value that call returned
    applied,              \* per name, apply_template calls since the template was added
    write_failures,       \* writes of saved_templates.json that have failed so far
    patient_info,         \* st.session_state.patient_info (dict)
    technique_info,       \* st.session_state.technique_info (dict)
    report_draft,         \* st.session_state.report_draft
    ai_report,            \* st.session_state.ai_report
    report_date,          \* st.session_state.report_date
    audit_results,        \* result of the last audit_report call ({} when none)
    doc,                  \* result of the last create_word_document call ({} when none)
    dx_text,              \* text argument of generate_differential_diagnosis
    modality_filter,      \* modality_filter argument
    differential_results, \* st.session_state.differential_results ({} when not computed)
    patient_obj,          \* identity of the dict object st.session_state.patient_info refers to
    report_history,       \* st.session_state.report_history (list of entries)
    metrics,              \* AnalyticsDashboard.metrics
    dicom_metadata,       \* st.session_state.dicom_metadata ({} when None)
    show_analytics,       \* st.session_state.show_analytics
    audit_log_file,       \* contents of audit_logs.json
    raised                \* the exception that left the last handler ({} when it returned)

templateVars == <<current_user, templates, templates_file, call, ret, applied, write_failures>>
sessionVars == <<patient_info, technique_info, report_draft, ai_report, report_date>>
outputVars == <<audit_results, doc>>
dxVars == <<dx_text, modality_filter, differential_results>>
historyVars == <<patient_obj, report_history, metrics, dicom_metadata, show_analytics>>
logVars == <<audit_log_file, raised>>
vars == <<current_user, templates, templates_file, call, ret, applied, write_failures,
          patient_info, technique_info, report_draft, ai_report, report_date,
          audit_results, doc, dx_text, modality_filter, differential_results,
          patient_obj, report_history, metrics, dicom_metadata, show_analytics,
          audit_log_file, raised>>

-----------------------------------------------------------------------------
(* Python str operations *)

LowerAlpha == "abcdefghijklmnopqrstuvwxyz"
UpperAlpha == "ABCDEFGHIJKLMNOPQRSTUVWXYZ"
LowerChars == {SubSeq(LowerAlpha, i, i) : i \in 1..26}
UpperChars == {SubSeq(UpperAlpha, i, i) : i \in 1..26}
Letters == LowerChars \cup UpperChars
Digits == {"0", "1", "2", "3", "4", "5", "6", "7", "8", "9"}
Whitespace == {" ", "\n", "\t", "\r"}

ToUpperMap == [c \in LowerChars |->
                 LET i == CHOOSE k \in 1..26 : SubSeq(LowerAlpha, k, k) = c
                 IN  SubSeq(UpperAlpha, i, i)]
ToLowerMap == [c \in UpperChars |->
                 LET i == CHOOSE k \in 1..26 : SubSeq(UpperAlpha, k, k) = c
                 IN  SubSeq(LowerAlpha, i, i)]

CharAt(s, i) == SubSeq(s, i, i)

Min(S) == CHOOSE x \in S : \A y \in S : x <= y

\* str.upper(), by halves so that long texts need only shallow recursion
RECURSIVE upper(_)
upper(s) ==
    IF Len(s) = 0 THEN ""
    ELSE IF Len(s) = 1 THEN (IF s \in LowerChars THEN ToUpperMap[s] ELSE s)
    ELSE LET h == Len(s) \div 2
         IN  upper(SubSeq(s, 1, h)) \o upper(SubSeq(s, h + 1, Len(s)))

\* str.lower()
RECURSIVE lower(_)
lower(s) ==
    IF Len(s) = 0 THEN ""
    ELSE IF Len(s) = 1 THEN (IF s \in UpperChars THEN ToLowerMap[s] ELSE s)
    ELSE LET h == Len(s) \div 2
         IN  lower(SubSeq(s, 1, h)) \o lower(SubSeq(s, h + 1, Len(s)))

\* `k in s` (substring test)
Contains(s, k) ==
    \E i \in 1..(Len(s) - Len(k) + 1) : SubSeq(s, i, i + Len(k) - 1) = k

\* str.strip()
strip(s) ==
    LET solid == {i \in 1..Len(s) : CharAt(s, i) \notin Whitespace}
    IN  IF solid = {} THEN ""
        ELSE SubSeq(s, Min(solid), CHOOSE x \in solid : \A y \in solid : y <= x)

\* str.isupper(): at least one cased character and no lower-case one
isupper(s) ==
    /\ \E i \in 1..Len(s) : CharAt(s, i) \in UpperChars
    /\ \A i \in 1..Len(s) : CharAt(s, i) \notin LowerChars

\* str.replace(' ', '')
RECURSIVE remove_spaces(_)
remove_spaces(s) ==
    IF Len(s) = 0 THEN ""
    ELSE IF Len(s) = 1 THEN (IF s = " " THEN "" ELSE s)
    ELSE LET h == Len(s) \div 2
         IN  remove_spaces(SubSeq(s, 1, h)) \o remove_spaces(SubSeq(s, h + 1, Len(s)))

\* str.split('\n')
RECURSIVE split_lines(_)
split_lines(s) ==
    LET nl == {i \in 1..Len(s) : CharAt(s, i) = "\n"}
    IN  IF nl = {} THEN <<s>>
        ELSE LET i == Min(nl)
             IN  <<SubSeq(s, 1, i - 1)>> \o split_lines(SubSeq(s, i + 1, Len(s)))

\* str.split(sep) for a one-character separator
RECURSIVE split(_, _)
split(s, sep) ==
    LET at == {i \in 1..Len(s) : CharAt(s, i) = sep}
    IN  IF at = {} THEN <<s>>
        ELSE LET i == Min(at)
             IN  <<SubSeq(s, 1, i - 1)>> \o split(SubSeq(s, i + 1, Len(s)), sep)

\* str.endswith(suffix)
endswith(s, suffix) ==
    Len(s) >= Len(suffix) /\ SubSeq(s, Len(s) - Len(suffix) + 1, Len(s)) = suffix

\* dict.get(key, default)
Get(d, k, default) == IF k \in DOMAIN d THEN d[k] ELSE default

\* dict.update(other), as the value of the dict afterwards
update(d, other) == other @@ d

\* datetime.datetime.now() formatted; a clock reading is "YYYY-MM-DD HH:MM"
strftime_compact(now) ==
    SubSeq(now, 1, 4) \o SubSeq(now, 6, 7) \o SubSeq(now, 9, 10) \o "_"
    \o SubSeq(now, 12, 13) \o SubSeq(now, 15, 16) \o "00"
isoformat(now) == SubSeq(now, 1, 10) \o "T" \o SubSeq(now, 12, 16) \o ":00"

-----------------------------------------------------------------------------
(* QualityAssurance *)

required_sections == <<"FINDINGS", "IMPRESSION">>
min_findings_length == 50
max_findings_length == 2000
ambiguous_terms ==
    <<"possible", "likely", "suggestive of", "cannot exclude", "may represent", "probably">>
forbidden_terms == <<"normal", "unremarkable">>

\* lookahead (?=\n\n[A-Z]+:|$) at the position before character q; under
\* re.IGNORECASE the class [A-Z] takes letters of either case, and $ also
\* holds just before a final newline
FindingsLookahead(text, q) ==
    \/ q = Len(text) + 1
    \/ q = Len(text) /\ CharAt(text, q) = "\n"
    \/ /\ q + 3 <= Len(text)
       /\ SubSeq(text, q, q + 1) = "\n\n"
       /\ CharAt(text, q + 2) \in Letters
       /\ \E r \in (q + 3)..Len(text) :
             /\ CharAt(text, r) = ":"
             /\ \A k \in (q + 2)..(r - 1) : CharAt(text, k) \in Letters

\* re.search(r'FINDINGS:(.*?)(?=\n\n[A-Z]+:|$)', report_text, re.DOTALL | re.IGNORECASE):
\* the leftmost FINDINGS: in any letter case, then the shortest text after
\* which the lookahead holds.  {} when there is no match, else {group(1)}.
findings_match(report_text) ==
    LET up == upper(report_text)
        starts == {p \in 1..(Len(report_text) - 8) : SubSeq(up, p, p + 8) = "FINDINGS:"}
    IN  IF starts = {} THEN {}
        ELSE LET p == Min(starts)
                 q == Min({k \in (p + 9)..(Len(report_text) + 1) :
                              FindingsLookahead(report_text, k)})
             IN  {SubSeq(report_text, p + 9, q - 1)}

\* a number (\d+\.?\d*) followed by optional white space ends just before j
NumberEndsBefore(text, j) ==
    \E e \in 1..(j - 1) :
        /\ \/ CharAt(text, e) \in Digits
           \/ CharAt(text, e) = "." /\ e > 1 /\ CharAt(text, e - 1) \in Digits
        /\ \A k \in (e + 1)..(j - 1) : CharAt(text, k) \in Whitespace

\* optional white space and then a number start right after j
NumberStartsAfter(text, j) ==
    \E r \in (j + 1)..Len(text) :
        /\ CharAt(text, r) \in Digits
        /\ \A k \in (j + 1)..(r - 1) : CharAt(text, k) \in Whitespace

\* re.search of the three measurement_patterns
units_used(report_text) ==
    {u \in {"cm", "mm"} :
        \E j \in 2..(Len(report_text) - 1) :
            SubSeq(report_text, j, j + 1) = u /\ NumberEndsBefore(report_text, j)}
    \cup
    {u \in {"dimensions"} :
        \E j \in 2..(Len(report_text) - 1) :
            /\ CharAt(report_text, j) = "x"
            /\ NumberEndsBefore(report_text, j)
            /\ NumberStartsAfter(report_text, j)}

\* ', '.join(units_used), unit_order being the order in which the set is iterated
RECURSIVE join_units(_)
join_units(unit_order) ==
    IF Len(unit_order) = 0 THEN ""
    ELSE IF Len(unit_order) = 1 THEN unit_order[1]
    ELSE unit_order[1] \o ", " \o join_units(Tail(unit_order))

\* max(0, min(100, score))
ClampUnbounded(score) == score
Clamp(score) ==
    LET lo == IF score < 100 THEN score ELSE 100
    IN  IF lo > 0 THEN lo ELSE 0

GradeStrict(score) ==
    IF score > 90 THEN "Excellent"
    ELSE IF score > 75 THEN "Good"
    ELSE IF score > 60 THEN "Fair"
    ELSE "Needs Improvement"
Grade(score) ==
    IF score >= 90 THEN "Excellent"
    ELSE IF score >= 75 THEN "Good"
    ELSE IF score >= 60 THEN "Fair"
    ELSE "Needs Improvement"

\* findings_text = findings_match.group(1).strip(), the text whose length is
\* measured and which is searched for ambiguous and vague terms
findings_text(report_text) ==
    LET m == findings_match(report_text)
    IN  IF m = {} THEN "" ELSE strip(CHOOSE g \in m : TRUE)

\* number of places where k occurs in s
Occurrences(s, k) ==
    Cardinality({p \in 1..(Len(s) - Len(k) + 1) : SubSeq(s, p, p + Len(k) - 1) = k})

\* the required-section loop: the sections not in report_text.upper()
missing_sections_case_sensitive(report_text) ==
    SelectSeq(required_sections, LAMBDA s : ~Contains(report_text, s))
missing_sections(report_text) ==
    SelectSeq(required_sections, LAMBDA s : ~Contains(upper(report_text), s))

\* the if / elif / else on len(findings_text)
length_check_inclusive(n) ==
    IF n <= min_findings_length THEN "brief"
    ELSE IF n >= max_findings_length THEN "verbose"
    ELSE "appropriate"
length_check(n) ==
    IF n < min_findings_length THEN "brief"
    ELSE IF n > max_findings_length THEN "verbose"
    ELSE "appropriate"

\* the ambiguous-language loop: the terms in findings_text.lower()
ambiguous_per_occurrence(text) ==
    LET each(t) == [i \in 1..Occurrences(lower(text), t) |-> t]
    IN  each(ambiguous_terms[1]) \o each(ambiguous_terms[2]) \o each(ambiguous_terms[3])
        \o each(ambiguous_terms[4]) \o each(ambiguous_terms[5]) \o each(ambiguous_terms[6])
ambiguous_found(text) ==
    SelectSeq(ambiguous_terms, LAMBDA t : Contains(lower(text), t))

\* the forbidden-term loop: the terms in findings_text.lower() of a text
\* shorter than 100
vague_found_any_length(text) ==
    SelectSeq(forbidden_terms, LAMBDA t : Contains(lower(text), t))
vague_found(text) ==
    SelectSeq(forbidden_terms, LAMBDA t : Contains(lower(text), t) /\ Len(text) < 100)

\* QualityAssurance.audit_report; unit_order is the iteration order of the
\* Python set units_used, which the language leaves open
audit_report(report_text, unit_order) ==
    LET up == upper(report_text)
        missing == missing_sections(report_text)
        m == findings_match(report_text)
        found == m # {}
        n == Len(findings_text(report_text))
        brief == found /\ length_check(n) = "brief"
        verbose == found /\ length_check(n) = "verbose"
        ambiguous == IF found THEN ambiguous_found(findings_text(report_text)) ELSE <<>>
        vague == IF found THEN vague_found(findings_text(report_text)) ELSE <<>>
        units == units_used(report_text)
        comparison == Contains(up, "COMPARISON")
        differential == Contains(up, "DIFFERENTIAL")
        score == 100 - 20 * Len(missing)
                     - (IF brief THEN 10 ELSE 0)
                     - (IF verbose THEN 5 ELSE 0)
                     - 3 * Len(ambiguous)
                     - 5 * Len(vague)
                     + (IF comparison THEN 10 ELSE 0)
                     + (IF differential THEN 5 ELSE 0)
        final == Clamp(score)
    IN  [score |-> final,
         grade |-> Grade(final),
         missing_sections |-> missing,
         warnings |->
            [i \in 1..Len(missing) |->
                "Missing required section: " \o missing[i]]
            \o (IF brief
                THEN <<"Findings section is brief (" \o ToString(n) \o " chars)">>
                ELSE <<>>)
            \o (IF verbose
                THEN <<"Findings section is verbose (" \o ToString(n) \o " chars)">>
                ELSE <<>>)
            \o [i \in 1..Len(vague) |->
                "Avoid vague term: '" \o vague[i] \o "' without supporting details"],
         suggestions |->
            (IF brief THEN <<"Consider adding more descriptive details">> ELSE <<>>)
            \o (IF verbose THEN <<"Consider being more concise">> ELSE <<>>)
            \o [i \in 1..Len(ambiguous) |->
                "Consider clarifying ambiguous term: '" \o ambiguous[i] \o "'"]
            \o (IF Cardinality(units) > 1
                THEN <<"Mixed measurement units detected: " \o join_units(unit_order)>>
                ELSE <<>>),
         strengths |->
            (IF found /\ ~brief /\ ~verbose
             THEN <<"Findings section has appropriate length">> ELSE <<>>)
            \o (IF comparison THEN <<"Includes comparison with prior studies">> ELSE <<>>)
            \o (IF differential THEN <<"Includes differential diagnosis">> ELSE <<>>)]

-----------------------------------------------------------------------------
(* TemplateSystem *)

heading_map ==
    [technique |-> "TECHNIQUE",
     findings |-> "FINDINGS",
     impression |-> "IMPRESSION",
     clinical |-> "CLINICAL HISTORY",
     differential |-> "DIFFERENTIAL DIAGNOSIS",
     comparison |-> "COMPARISON"]

\* TemplateSystem.load_templates: the parsed file, or {} when the file is
\* absent or json.load raises
load_templates(file) ==
    IF file.exists /\ file.valid THEN file.data ELSE [k \in {} |-> ""]

\* TemplateSystem.save_templates: open(TEMPLATES_FILE, 'w') and json.dump in a
\* try block that swallows every exception.  outcome is what the file system
\* does: the dump completes, open() fails and leaves the file as it was, or
\* the write fails after open() has truncated the file.
save_templates_never_writes(file, tmpls, outcome) == file
save_templates(file, tmpls, outcome) ==
    CASE outcome = "written" -> [exists |-> TRUE, valid |-> TRUE, data |-> tmpls]
      [] outcome = "open_failed" -> file
      [] outcome = "write_failed" ->
            [exists |-> TRUE, valid |-> FALSE, data |-> [k \in {} |-> ""]]

\* TemplateSystem.add_template (the creation date is not modelled)
add_template_keep_existing(tmpls, name, content, template_type, user) ==
    tmpls @@ (name :> [content |-> content, type |-> template_type,
                       created_by |-> user, used_count |-> 0])
add_template(tmpls, name, content, template_type, user) ==
    (name :> [content |-> content, type |-> template_type,
              created_by |-> user, used_count |-> 0]) @@ tmpls

\* TemplateSystem.get_template_heading
get_template_heading(tmpls, template_name) ==
    IF template_name \notin DOMAIN tmpls THEN upper(template_name)
    ELSE LET template_type == Get(tmpls[template_name], "type", "findings")
         IN  Get(heading_map, template_type, upper(template_name))

apply_template_no_early_return(tmpls, template_name, current_text) ==
    IF template_name \notin DOMAIN tmpls
    THEN [ret |-> current_text \o "\n\n" \o get_template_heading(tmpls, template_name) \o ":\n",
          templates |-> tmpls, saved |-> FALSE]
    ELSE [ret |-> current_text \o "\n\n" \o upper(get_template_heading(tmpls, template_name))
                    \o ":\n" \o tmpls[template_name].content,
          templates |-> [tmpls EXCEPT ![template_name].used_count = @ + 1],
          saved |-> TRUE]
apply_template_count_reset(tmpls, template_name, current_text) ==
    IF template_name \notin DOMAIN tmpls
    THEN [ret |-> current_text, templates |-> tmpls, saved |-> FALSE]
    ELSE [ret |-> current_text \o "\n\n" \o upper(get_template_heading(tmpls, template_name))
                    \o ":\n" \o tmpls[template_name].content,
          templates |-> [tmpls EXCEPT ![template_name].used_count = 1],
          saved |-> TRUE]
\* TemplateSystem.apply_template: the returned text, the template map after
\* the call and whether save_templates was called
apply_template(tmpls, template_name, current_text) ==
    IF template_name \notin DOMAIN tmpls
    THEN [ret |-> current_text, templates |-> tmpls, saved |-> FALSE]
    ELSE LET template == tmpls[template_name]
             heading == get_template_heading(tmpls, template_name)
             formatted_template == "\n\n" \o upper(heading) \o ":\n" \o template.content
         IN  [ret |-> IF current_text # "" THEN current_text \o formatted_template
                      ELSE formatted_template,
              templates |-> [tmpls EXCEPT ![template_name].used_count =
                                              Get(template, "used_count", 0) + 1],
              saved |-> TRUE]

-----------------------------------------------------------------------------
(* Differential diagnosis suggestions *)

\* the absent argument (Python None)
None == "<None>"

DIFFERENTIAL_DATABASE ==
    [brain_lesion_enhancing |->
       <<[diagnosis |-> "Meningioma", confidence |-> "High",
          features |-> "Dural-based, homogeneous enhancement",
          modality |-> "MRI", urgency |-> "Non-urgent"],
         [diagnosis |-> "Metastasis", confidence |-> "High",
          features |-> "Multiple, at gray-white junction",
          modality |-> "MRI", urgency |-> "Urgent"],
         [diagnosis |-> "Glioblastoma", confidence |-> "Medium",
          features |-> "Irregular rim enhancement",
          modality |-> "MRI", urgency |-> "Urgent"]>>,
     white_matter |->
       <<[diagnosis |-> "Microvascular ischemia", confidence |-> "High",
          features |-> "Periventricular, punctate",
          modality |-> "MRI", urgency |-> "Non-urgent"],
         [diagnosis |-> "Multiple Sclerosis", confidence |-> "Medium",
          features |-> "Ovoid, perivenular",
          modality |-> "MRI", urgency |-> "Non-urgent"]>>,
     stroke |->
       <<[diagnosis |-> "Ischemic infarct", confidence |-> "High",
          features |-> "Vascular territory, DWI bright",
          modality |-> "MRI/CT", urgency |-> "Urgent"],
         [diagnosis |-> "Venous infarct", confidence |-> "Medium",
          features |-> "Hemorrhagic, non-arterial",
          modality |-> "MRI/CT", urgency |-> "Urgent"]>>,
     spinal_lesion |->
       <<[diagnosis |-> "Disc herniation", confidence |-> "High",
          features |-> "Disc material extrusion",
          modality |-> "MRI", urgency |-> "Non-urgent"],
         [diagnosis |-> "Metastasis", confidence |-> "Medium",
          features |-> "Vertebral body destruction",
          modality |-> "MRI", urgency |-> "Urgent"]>>,
     lung_nodule |->
       <<[diagnosis |-> "Primary lung cancer", confidence |-> "Medium",
          features |-> "Spiculated, >2cm",
          modality |-> "CT", urgency |-> "Urgent"],
         [diagnosis |-> "Metastasis", confidence |-> "Medium",
          features |-> "Multiple, peripheral",
          modality |-> "CT", urgency |-> "Urgent"]>>,
     liver_lesion |->
       <<[diagnosis |-> "Hemangioma", confidence |-> "High",
          features |-> "Peripheral nodular enhancement",
          modality |-> "MRI/CT", urgency |-> "Non-urgent"],
         [diagnosis |-> "Metastasis", confidence |-> "Medium",
          features |-> "Multiple, ring enhancement",
          modality |-> "MRI/CT", urgency |-> "Urgent"]>>]

\* the keyword tests of generate_differential_diagnosis, in the order made
DifferentialTriggers ==
    <<[group |-> "brain_lesion_enhancing",
       words |-> <<"enhanc", "mass", "tumor", "neoplasm", "gadolinium">>],
      [group |-> "white_matter",
       words |-> <<"white matter", "flair", "hyperintensity", "msa", "demyelinating">>],
      [group |-> "stroke",
       words |-> <<"stroke", "infarct", "ischemi", "mca", "aca", "pca">>],
      [group |-> "spinal_lesion",
       words |-> <<"spinal", "cord", "disc", "vertebral", "canal", "foraminal">>],
      [group |-> "lung_nodule",
       words |-> <<"lung", "pulmonary", "nodule", "chest", "thorax", "pleural">>],
      [group |-> "liver_lesion",
       words |-> <<"liver", "hepatic", "lesion", "hepato", "portal">>]>>

\* any(word in text_lower for word in [...])
any_word_all(text_lower, words) ==
    \A i \in 1..Len(words) : Contains(text_lower, words[i])
any_word(text_lower, words) ==
    \E i \in 1..Len(words) : Contains(text_lower, words[i])

\* results.extend(...) for every group one of whose words is in text_lower
RECURSIVE matched_entries(_, _)
matched_entries(text_lower, k) ==
    IF k > Len(DifferentialTriggers) THEN <<>>
    ELSE LET g == DifferentialTriggers[k]
             hit == any_word(text_lower, g.words)
         IN  (IF hit THEN DIFFERENTIAL_DATABASE[g.group] ELSE <<>>)
             \o matched_entries(text_lower, k + 1)

\* the seen/unique_results loop: the first entry of each diagnosis, in order
keep_duplicates(results) == results
RECURSIVE unique_from(_, _)
unique_from(results, i) ==
    IF i > Len(results) THEN <<>>
    ELSE (IF \E j \in 1..(i - 1) : results[j].diagnosis = results[i].diagnosis
          THEN <<>> ELSE <<results[i]>>)
         \o unique_from(results, i + 1)
remove_duplicates(results) == unique_from(results, 1)

\* generate_differential_diagnosis
generate_differential_diagnosis_filter_last(text, filter) ==
    IF text = "" \/ text = None THEN <<>>
    ELSE LET results == matched_entries(lower(text), 1)
             unique_results == remove_duplicates(results)
             filtered == IF filter # None /\ filter # "" /\ filter # "All"
                         THEN SelectSeq(unique_results, LAMBDA r : r.modality = filter)
                         ELSE unique_results
         IN  SubSeq(filtered, 1, IF Len(filtered) < 6 THEN Len(filtered) ELSE 6)
generate_differential_diagnosis(text, filter) ==
    IF text = "" \/ text = None THEN <<>>
    ELSE LET results == matched_entries(lower(text), 1)
             filtered == IF filter # None /\ filter # "" /\ filter # "All"
                         THEN SelectSeq(results, LAMBDA r : r.modality = filter)
                         ELSE results
             unique_results == remove_duplicates(filtered)
         IN  SubSeq(unique_results, 1, IF Len(unique_results) < 6 THEN Len(unique_results) ELSE 6)

-----------------------------------------------------------------------------
(* Report assembly (the Generate button) and Word export *)

DefaultImpression ==
    "\n\nIMPRESSION:\nFindings as described above. Clinical correlation recommended."

\* any(patient_info.values())
any_value(d) == \E k \in DOMAIN d : d[k] # ""

never_append_impression(acc) == acc
\* "Ensure IMPRESSION section exists if not in draft"
ensure_impression(acc) ==
    IF ~Contains(acc, "IMPRESSION:") /\ ~Contains(acc, "IMPRESSION")
    THEN acc \o DefaultImpression
    ELSE acc

\* the text the Generate button accumulates before the IMPRESSION test:
\* patient block, technique block and draft
accumulated_report(p, tech_info, draft_text) ==
    LET patient ==
            IF any_value(p)
            THEN "PATIENT INFORMATION:\n"
                 \o (IF Get(p, "name", "") # "" THEN "Name: " \o p.name \o "\n" ELSE "")
                 \o (IF Get(p, "id", "") # "" THEN "ID: " \o p.id \o "\n" ELSE "")
                 \o (IF Get(p, "age", "") # "" \/ Get(p, "sex", "") # ""
                     THEN "Age/Sex: " \o Get(p, "age", "") \o "/" \o Get(p, "sex", "") \o "\n"
                     ELSE "")
                 \o (IF Get(p, "history", "") # ""
                     THEN "Clinical History: " \o p.history \o "\n" ELSE "")
            ELSE ""
        technique ==
            "\nTECHNIQUE:\n"
            \o "Modality: " \o Get(tech_info, "modality", "Not specified") \o "\n"
            \o "Contrast: " \o Get(tech_info, "contrast", "Without contrast") \o "\n"
            \o (IF Get(tech_info, "sequences", "") # ""
                THEN tech_info.sequences \o "\n" ELSE "")
        draft == IF draft_text # "" THEN "\n" \o draft_text ELSE ""
    IN  patient \o technique \o draft

\* the text the Generate button builds into formatted_report
formatted_report(p, tech_info, draft_text) ==
    ensure_impression(accumulated_report(p, tech_info, draft_text))

\* an element of the python-docx document body
Element(style, text) == [style |-> style, text |-> text]

any_line_with_colon(line_stripped) ==
    Len(line_stripped) >= 1 /\ CharAt(line_stripped, Len(line_stripped)) = ":"
\* line_stripped.endswith(':') and line_stripped[:-1].replace(' ', '').isupper()
is_heading_line(line_stripped) ==
    /\ Len(line_stripped) >= 1
    /\ CharAt(line_stripped, Len(line_stripped)) = ":"
    /\ isupper(remove_spaces(SubSeq(line_stripped, 1, Len(line_stripped) - 1)))

\* the loop over report_text.split('\n')
report_elements_skip_blank(report_text) ==
    LET lines == SelectSeq(split_lines(report_text), LAMBDA l : strip(l) # "")
    IN  [i \in 1..Len(lines) |->
           LET line_stripped == strip(lines[i])
           IN  IF is_heading_line(line_stripped)
               THEN Element("Heading 1", SubSeq(line_stripped, 1, Len(line_stripped) - 1))
               ELSE Element("Normal", line_stripped)]
report_elements(report_text) ==
    LET lines == split_lines(report_text)
    IN  [i \in 1..Len(lines) |->
           LET line_stripped == strip(lines[i])
           IN  IF line_stripped = "" THEN Element("Normal", "")
               ELSE IF is_heading_line(line_stripped)
               THEN Element("Heading 1", SubSeq(line_stripped, 1, Len(line_stripped) - 1))
               ELSE Element("Normal", line_stripped)]

\* create_word_document: the paragraphs of the document, in order; user is
\* st.session_state.current_user and now the clock reading (to the minute)
create_word_document(p, report_text, date, tech_info, user, now) ==
    <<Element("Title", "RADIOLOGY REPORT"), Element("Normal", "")>>
    \o (IF any_value(p)
        THEN <<Element("Heading 1", "PATIENT INFORMATION")>>
             \o (IF Get(p, "name", "") # ""
                 THEN <<Element("Normal", "Patient Name: " \o p.name)>> ELSE <<>>)
             \o (IF Get(p, "id", "") # ""
                 THEN <<Element("Normal", "Patient ID: " \o p.id)>> ELSE <<>>)
             \o (IF Get(p, "age", "") # "" \/ Get(p, "sex", "") # ""
                 THEN <<Element("Normal", "Age/Sex: " \o Get(p, "age", "") \o "/"
                                              \o Get(p, "sex", ""))>>
                 ELSE <<>>)
             \o (IF Get(p, "history", "") # ""
                 THEN <<Element("Normal", "Clinical History: " \o p.history)>> ELSE <<>>)
             \o <<Element("Normal", "Report Date: "
                            \o (IF date # "" THEN date ELSE SubSeq(now, 1, 10)))>>
        ELSE <<>>)
    \o <<Element("Normal", "")>>
    \o report_elements(report_text)
    \o <<Element("Page Break", ""),
         Element("Heading 1", "REPORT DETAILS"),
         Element("Normal", "Generated by: " \o user \o "\nGeneration date: " \o now \o ":00")>>

-----------------------------------------------------------------------------
(* AnalyticsDashboard *)

InitMetrics ==
    [turnaround_time |-> <<>>,
     report_length |-> <<>>,
     template_usage |-> [k \in {} |-> 0],
     critical_findings_count |-> 0,
     modality_usage |-> [k \in {} |-> 0],
     user_productivity |-> [k \in {} |-> 0]]

critical_keywords ==
    <<"hemorrhage", "stroke", "infarct", "herniation", "compression", "rupture", "abscess">>

\* defaultdict(int): d[k] += 1
increment(d, k) == (k :> (Get(d, k, 0) + 1)) @@ d

\* AnalyticsDashboard.update_metrics; a history entry has no 'templates_used'
\* key, so the template loop runs over the empty default list
update_metrics(m, report_data) ==
    LET report_text == lower(Get(report_data, "report", ""))
        modality == Get(Get(report_data, "technique_info", [k \in {} |-> ""]),
                        "modality", "Unknown")
        user == Get(report_data, "created_by", "unknown")
        critical == \E i \in 1..Len(critical_keywords) :
                        Contains(report_text, critical_keywords[i])
    IN  [m EXCEPT
           !.report_length = Append(@, Len(Get(report_data, "report", ""))),
           !.modality_usage = increment(@, modality),
           !.user_productivity = increment(@, user),
           !.critical_findings_count = IF critical THEN @ + 1 ELSE @]

\* "Update metrics with all history": the loop of the dashboard panel, which
\* feeds every history entry to update_metrics each time the panel is drawn
RECURSIVE update_with_all(_, _)
update_with_all(m, history) ==
    IF Len(history) = 0 THEN m
    ELSE update_with_all(update_metrics(m, Head(history)), Tail(history))

\* with the dashboard shown the samples grow with every run of the page
\* script: runs are counted up to MaxSamples samples
MaxSamples == 6
RenderBudget == show_analytics => Len(metrics.report_length) < MaxSamples

\* the metrics after one run of the page script down to the dashboard panel
rendered(m, history, show) ==
    IF show /\ Len(history) > 0 THEN update_with_all(m, history) ELSE m

-----------------------------------------------------------------------------
(* QualityAssurance.save_audit_log *)

\* save_audit_log(report_id, audit_results, user) at clock reading now.
\* The existing log is read (an absent or unreadable file counts as empty),
\* the entry is appended and the whole list is written back without a try
\* block: outcome is what the file system does with that write.  The result
\* is the file afterwards and the exception leaving the method, if any.
save_audit_log(file, report_id, results, user, now, outcome) ==
    LET log_entry == [report_id |-> report_id,
                      timestamp |-> isoformat(now),
                      user |-> user,
                      score |-> results.score,
                      grade |-> results.grade,
                      warnings |-> results.warnings,
                      suggestions |-> results.suggestions]
        logs == IF file.exists /\ file.valid THEN file.data ELSE <<>>
    IN  CASE outcome = "written" ->
                [file |-> [exists |-> TRUE, valid |-> TRUE, data |-> Append(logs, log_entry)],
                 raised |-> {}]
          [] outcome = "open_failed" ->
                [file |-> file, raised |-> {"OSError"}]
          [] outcome = "write_failed" ->
                [file |-> [exists |-> TRUE, valid |-> FALSE, data |-> <<>>],
                 raised |-> {"OSError"}]

-----------------------------------------------------------------------------
(* DICOMMetadataExtractor *)

metadata_fields ==
    [Patient |-> <<"PatientName", "PatientID", "PatientBirthDate", "PatientSex", "PatientAge">>,
     Study |-> <<"StudyDate", "StudyTime", "StudyDescription", "AccessionNumber",
                 "ReferringPhysicianName">>,
     Series |-> <<"SeriesDescription", "Modality", "BodyPartExamined", "ProtocolName",
                  "SequenceName">>,
     Image |-> <<"SliceThickness", "PixelSpacing", "ConvolutionKernel", "KV", "MA",
                 "ExposureTime">>]

\* the fields of one category the data set has, each as str(value)
category_fields(ds, category) ==
    LET fields == {metadata_fields[category][i] : i \in 1..Len(metadata_fields[category])}
    IN  [f \in fields \cap DOMAIN ds |-> ds[f]]

extract_metadata_success_on_error(dicom_file) ==
    [Success |-> TRUE,
     Patient |-> category_fields(dicom_file.dataset, "Patient"),
     Study |-> category_fields(dicom_file.dataset, "Study"),
     Series |-> category_fields(dicom_file.dataset, "Series"),
     Image |-> category_fields(dicom_file.dataset, "Image")]
\* DICOMMetadataExtractor.extract_metadata: dicom_file is what pydicom makes of
\* the upload, a data set or an exception raised inside the try block
extract_metadata(dicom_file) ==
    IF ~dicom_file.readable
    THEN [Success |-> FALSE, Error |-> dicom_file.error]
    ELSE LET patient == category_fields(dicom_file.dataset, "Patient")
             age_years ==
                IF "PatientAge" \in DOMAIN patient /\ endswith(patient["PatientAge"], "Y")
                THEN "AgeYears" :> SubSeq(patient["PatientAge"], 1,
                                          Len(patient["PatientAge"]) - 1)
                ELSE [k \in {} |-> ""]
         IN  [Success |-> TRUE,
              Patient |-> age_years @@ patient,
              Study |-> category_fields(dicom_file.dataset, "Study"),
              Series |-> category_fields(dicom_file.dataset, "Series"),
              Image |-> category_fields(dicom_file.dataset, "Image")]

sex_map == [M |-> "M", F |-> "F", O |-> "Other"]

\* DICOMMetadataExtractor.populate_patient_info
populate_patient_info(metadata) ==
    IF ~Get(metadata, "Success", FALSE) THEN [k \in {} |-> ""]
    ELSE LET patient_data == Get(metadata, "Patient", [k \in {} |-> ""])
             name_parts == split(patient_data["PatientName"], "^")
             name == IF "PatientName" \notin DOMAIN patient_data THEN [k \in {} |-> ""]
                     ELSE IF Len(name_parts) >= 2
                     THEN "name" :> strip(name_parts[2] \o " " \o name_parts[1])
                     ELSE "name" :> patient_data["PatientName"]
             id == IF "PatientID" \in DOMAIN patient_data
                   THEN "id" :> patient_data["PatientID"] ELSE [k \in {} |-> ""]
             age == IF "AgeYears" \in DOMAIN patient_data
                    THEN "age" :> patient_data["AgeYears"]
                    ELSE IF "PatientAge" \in DOMAIN patient_data
                            /\ endswith(patient_data["PatientAge"], "Y")
                    THEN "age" :> SubSeq(patient_data["PatientAge"], 1,
                                         Len(patient_data["PatientAge"]) - 1)
                    ELSE [k \in {} |-> ""]
             sex == IF "PatientSex" \in DOMAIN patient_data
                    THEN "sex" :> Get(sex_map, patient_data["PatientSex"],
                                      patient_data["PatientSex"])
                    ELSE [k \in {} |-> ""]
         IN  name @@ id @@ age @@ sex

-----------------------------------------------------------------------------
(* Report history *)

\* the entry Save to History appends; patient_info and technique_info are the
\* session's dict objects themselves, not copies: patient_obj is the identity
\* of the patient dict (the technique dict is never changed in place)
history_entry(report_name, date, p, obj, tech_info, report, user) ==
    [name |-> report_name,
     date |-> date,
     patient_info |-> p,
     patient_obj |-> obj,
     technique_info |-> tech_info,
     report |-> report,
     created_by |-> user,
     has_patient_data |-> (DOMAIN p # {} /\ \E k \in DOMAIN p : p[k] # "")]

\* the default of the Report Name input
report_name(p, date) == Get(p, "name", "Unnamed") \o "_" \o split(date, " ")[1]

\* reversed(report_history[-5:]): the entries the history panel lists
shown_reports(history) ==
    LET n == IF Len(history) < 5 THEN Len(history) ELSE 5
    IN  [i \in 1..n |-> history[Len(history) + 1 - i]]

\* list.pop(index) for a 0-based index, as the list afterwards
pop(list, index) ==
    [k \in 1..(Len(list) - 1) |-> IF k <= index THEN list[k] ELSE list[k + 1]]

\* a dict object not referred to by any history entry
new_object(history) ==
    Min({o \in 0..Len(history) : \A k \in 1..Len(history) : history[k].patient_obj # o})

\* st.session_state.patient_info.update(patient_info) changes the dict object
\* in place: every history entry that holds the same object shows the change
update_in_place(history, obj, value) ==
    [k \in 1..Len(history) |->
        IF history[k].patient_obj = obj
        THEN [history[k] EXCEPT !.patient_info = value]
        ELSE history[k]]

-----------------------------------------------------------------------------
(* Report texts the audit is run on *)

S50 == "The ventricles and sulci are of expected calibre. "
B49 == "No midline shift or extra-axial collections seen."
B50 == "The ventricles and the sulci are of expected size."
B51 == "The ventricles and the sulci are of expected sizes."
S200 == S50 \o S50 \o S50 \o S50
S1000 == S200 \o S200 \o S200 \o S200 \o S200
B200 == S50 \o S50 \o S50 \o B50
B2000 == S1000 \o S200 \o S200 \o S200 \o S200 \o S50 \o S50 \o S50 \o B50
B2001 == S1000 \o S200 \o S200 \o S200 \o S200 \o S50 \o S50 \o S50 \o B51

FindingsBodies ==
    {"No acute abnormality.",
     "Normal study, unremarkable.",
     "Possible lesion, likely benign, probably a cyst.",
     B49, B50,
     "Possible cyst or possible lipoma; a cyst is more likely. Normal otherwise.",
     "Normal ventricles and sulci. No midline shift and no extra-axial fluid collections are seen at all.",
     "Normal ventricles and sulci. No midline shift, and no extra-axial fluid collections are seen at all.",
     "Possible, likely, suggestive of, cannot exclude, may represent, probably normal, unremarkable.",
     "Lesion measures 2.5 cm x 12 mm in the left lobe, with well defined margins.",
     B200}

LeadingSections == {"", "COMPARISON:\nNone available.\n\n"}

FindingsHeadings == {"FINDINGS:\n", "Findings:\n", "FINDINGS\n", ""}

TrailingSections ==
    {"",
     "\n\nIMPRESSION:\nNo acute abnormality.",
     "\nIMPRESSION:\nLikely benign.",
     "\n\nCLINICAL HISTORY:\nPossible stroke.\n\nIMPRESSION:\nStable.",
     "\n\nDIFFERENTIAL DIAGNOSIS:\n1. Meningioma - Dural-based\n\nIMPRESSION:\nStable.",
     "\n\nnote: probably artefact\n\nIMPRESSION:\nStable."}

AuditTexts ==
    {a \o h \o b \o z : a \in LeadingSections, h \in FindingsHeadings,
                        b \in FindingsBodies, z \in TrailingSections}
    \cup {"FINDINGS:\n" \o b \o z :
            b \in {B2000, B2001},
            z \in {"", "\n\nIMPRESSION:\nNo acute abnormality."}}
    \cup {""}

\* the orders in which a Python set holding the elements of S can be iterated
IterationOrders(S) ==
    {f \in [1..Cardinality(S) -> S] : \A x \in S : \E i \in 1..Cardinality(S) : f[i] = x}

-----------------------------------------------------------------------------
(* Values of the variables an operation does not use *)

EmptyDict == [k \in {} |-> ""]
NoFile == [exists |-> FALSE, valid |-> FALSE, data |-> EmptyDict]
NoCall == [op |-> "none", name |-> "", content |-> "", template_type |-> "",
           current_text |-> ""]

IdleTemplates ==
    /\ current_user = "default"
    /\ templates = EmptyDict
    /\ templates_file = NoFile
    /\ call = NoCall
    /\ ret = {}
    /\ applied = EmptyDict
    /\ write_failures = 0

IdleSession ==
    /\ patient_info = EmptyDict
    /\ technique_info = [modality |-> "MRI", contrast |-> "Without contrast",
                         sequences |-> "Standard sequences"]
    /\ report_draft = ""
    /\ ai_report = ""
    /\ report_date = ""

IdleOutputs == audit_results = {} /\ doc = {}

IdleDx == dx_text = "" /\ modality_filter = "None" /\ differential_results = {}

NoLogFile == [exists |-> FALSE, valid |-> FALSE, data |-> <<>>]

IdleHistory ==
    /\ patient_obj = 0
    /\ report_history = <<>>
    /\ metrics = InitMetrics
    /\ dicom_metadata = {}
    /\ show_analytics = FALSE

IdleLog == audit_log_file = NoLogFile /\ raised = {}

-----------------------------------------------------------------------------
(* The template store under add_template and apply_template calls *)

MaxUsed == 2
MaxWriteFailures == 1

TemplateNames == {"Normal Brain MRI", "chest ct"}
CallNames == TemplateNames \cup {"Knee MRI"}
\* content and section type of the templates that are saved
TemplateInputs ==
    {<<"No acute abnormality.", "findings">>,
     <<"Lungs are clear.", "findings">>,
     <<"Lungs are clear.", "technique">>,
     <<"No acute abnormality.", "impression">>,
     <<"Lungs are clear.", "clinical">>,
     <<"No acute abnormality.", "differential">>,
     <<"Lungs are clear.", "comparison">>,
     <<"No acute abnormality.", "custom">>}
DraftTexts == {"", "FINDINGS:\nNo acute abnormality."}
\* what a write of the file can do while failures are still to come
WriteOutcomes ==
    IF write_failures < MaxWriteFailures
    THEN {"written", "open_failed", "write_failed"}
    ELSE {"written"}

\* saved_templates.json as an earlier session can have left it
InitialFiles ==
    {NoFile,
     [exists |-> TRUE, valid |-> FALSE, data |-> EmptyDict],
     [exists |-> TRUE, valid |-> TRUE,
      data |-> ("Normal Brain MRI" :>
                  [content |-> "No acute abnormality.", type |-> "findings",
                   created_by |-> "neuro", used_count |-> 1])]}

\* TemplateSystem.__init__
InitTemplates ==
    /\ current_user = "neuro"
    /\ templates_file \in InitialFiles
    /\ templates = load_templates(templates_file)
    /\ call = NoCall
    /\ ret = {}
    /\ applied = [n \in DOMAIN templates |-> templates[n].used_count]
    /\ write_failures = 0
    /\ IdleSession /\ IdleOutputs /\ IdleDx /\ IdleHistory /\ IdleLog

\* st.session_state.template_system.add_template(name, content, template_type)
AddTemplate(name, content, template_type) ==
    /\ templates' = add_template(templates, name, content, template_type, current_user)
    /\ \E outcome \in WriteOutcomes :
          /\ templates_file' = save_templates(templates_file, templates', outcome)
          /\ write_failures' = write_failures + (IF outcome = "written" THEN 0 ELSE 1)
    /\ call' = [op |-> "add_template", name |-> name, content |-> content,
                template_type |-> template_type, current_text |-> ""]
    /\ ret' = {}
    /\ applied' = (name :> 0) @@ applied
    /\ raised' = {}
    /\ UNCHANGED <<current_user, sessionVars, outputVars, dxVars, historyVars, audit_log_file>>

\* template_system.apply_template(template_name, current_text)
ApplyTemplate(template_name, current_text) ==
    /\ template_name \in DOMAIN templates => templates[template_name].used_count < MaxUsed
    /\ LET r == apply_template(templates, template_name, current_text)
       IN  /\ templates' = r.templates
           /\ ret' = {r.ret}
           /\ IF r.saved
              THEN \E outcome \in WriteOutcomes :
                      /\ templates_file' = save_templates(templates_file, r.templates, outcome)
                      /\ write_failures' =
                            write_failures + (IF outcome = "written" THEN 0 ELSE 1)
              ELSE UNCHANGED <<templates_file, write_failures>>
    /\ call' = [op |-> "apply_template", name |-> template_name, content |-> "",
                template_type |-> "", current_text |-> current_text]
    /\ applied' = IF template_name \in DOMAIN applied
                  THEN [applied EXCEPT ![template_name] = @ + 1]
                  ELSE applied
    /\ raised' = {}
    /\ UNCHANGED <<current_user, sessionVars, outputVars, dxVars, historyVars, audit_log_file>>

NextTemplates ==
    \/ \E name \in TemplateNames, input \in TemplateInputs :
          AddTemplate(name, input[1], input[2])
    \/ \E name \in CallNames, text \in DraftTexts : ApplyTemplate(name, text)

SpecTemplates == InitTemplates /\ [][NextTemplates]_vars

\* C2: apply_template on a name that is not in the store returns the draft
\* unchanged, as an ordinary value, and changes neither the template map (so
\* no usage count) nor the persisted store.
C2_UnknownTemplateLeavesAllUnchanged ==
    [][(call'.op = "apply_template" /\ call'.name \notin DOMAIN templates)
          => /\ ret' = {call'.current_text}
             /\ templates' = templates
             /\ templates_file' = templates_file]_vars

\* an unknown name applied to a non-empty draft while the store holds a used
\* template and a persisted copy
C2_Witness ==
    /\ call.op = "apply_template"
    /\ call.name \notin DOMAIN templates
    /\ call.current_text # ""
    /\ ret = {call.current_text}
    /\ \E n \in DOMAIN templates : templates[n].used_count > 0
    /\ templates_file.valid

\* C3: each apply_template call on a stored template adds exactly 1 to that
\* template's usage count and changes no other count, so the count always
\* equals the number of applications since the template was added.
C3_EachApplyCountsOnce ==
    /\ [](\A n \in DOMAIN templates : templates[n].used_count = applied[n])
    /\ [][(call'.op = "apply_template" /\ call'.name \in DOMAIN templates)
             => /\ DOMAIN templates' = DOMAIN templates
                /\ templates'[call'.name].used_count = templates[call'.name].used_count + 1
                /\ \A m \in DOMAIN templates \ {call'.name} :
                      templates'[m].used_count = templates[m].used_count]_vars

\* a template applied twice next to one that was never applied
C3_Witness ==
    /\ call.op = "apply_template"
    /\ call.name \in DOMAIN templates
    /\ templates[call.name].used_count = 2
    /\ applied[call.name] = 2
    /\ \E m \in DOMAIN templates : m # call.name /\ templates[m].used_count = 0

\* the heading of a template: fixed per section type, else the upper-cased name
SectionHeading(template_type, name) ==
    CASE template_type = "technique" -> "TECHNIQUE"
      [] template_type = "findings" -> "FINDINGS"
      [] template_type = "impression" -> "IMPRESSION"
      [] template_type = "clinical" -> "CLINICAL HISTORY"
      [] template_type = "differential" -> "DIFFERENTIAL DIAGNOSIS"
      [] template_type = "comparison" -> "COMPARISON"
      [] OTHER -> upper(name)

\* C10: for a stored template apply_template returns
\* draft + "\n\n" + heading + ":\n" + content when the draft is non-empty and
\* heading + ":\n" + content, without a leading separator, when it is empty.
C10_ApplyResultFormat ==
    (call.op = "apply_template" /\ call.name \in DOMAIN templates)
    => LET t == templates[call.name]
           block == SectionHeading(t.type, call.name) \o ":\n" \o t.content
       IN  ret = {IF call.current_text # ""
                  THEN call.current_text \o "\n\n" \o block
                  ELSE block}

\* C11: add_template on any name, new or existing, stores exactly the content
\* and section type of that call under the name with a usage count of 0 and
\* leaves the entries under all other names unchanged (last write wins).
C11_LastAddWins ==
    [][(call'.op = "add_template")
          => /\ DOMAIN templates' = DOMAIN templates \cup {call'.name}
             /\ templates'[call'.name].content = call'.content
             /\ templates'[call'.name].type = call'.template_type
             /\ templates'[call'.name].used_count = 0
             /\ \A m \in DOMAIN templates \ {call'.name} : templates'[m] = templates[m]]_vars

\* an add_template call on a name whose earlier entry, still seen in the file
\* because the write failed, had other content and had been applied
C11_Witness ==
    /\ call.op = "add_template"
    /\ templates_file.valid
    /\ call.name \in DOMAIN templates_file.data
    /\ templates_file.data[call.name].used_count > 0
    /\ templates_file.data[call.name].content # call.content
    /\ templates_file.data[call.name].type # call.template_type
    /\ templates[call.name].content = call.content
    /\ templates[call.name].used_count = 0
    /\ \E m \in DOMAIN templates : m # call.name

\* C12 as stated: after every add_template or apply_template call has
\* returned, the persisted template store equals the in-memory template map.
C12_PersistedEqualsMemory ==
    (call.op # "none") => load_templates(templates_file) = templates

\* C12 as amended: when add_template, or apply_template on a stored template,
\* returns and the write of the store succeeded, the persisted store is
\* exactly the in-memory map, incremented usage count included; when the
\* write failed the call still returns with the in-memory map updated and the
\* persisted store is either as it was before the call or unreadable.
C12_PersistedEqualsMemoryWhenWritten ==
    [][(call'.op = "add_template"
          \/ (call'.op = "apply_template" /\ call'.name \in DOMAIN templates))
        => IF write_failures' = write_failures
           THEN /\ templates_file'.exists /\ templates_file'.valid
                /\ templates_file'.data = templates'
                /\ load_templates(templates_file') = templates'
           ELSE /\ \/ templates_file' = templates_file
                   \/ templates_file'.exists /\ ~templates_file'.valid
                /\ call'.op = "apply_template"
                      => templates'[call'.name].used_count
                            = templates[call'.name].used_count + 1]_vars

\* an apply_template whose write succeeded after an earlier write had failed:
\* the file holds the count of both applications
C12_Witness ==
    /\ call.op = "apply_template"
    /\ call.name \in DOMAIN templates
    /\ write_failures = 1
    /\ templates[call.name].used_count = 2
    /\ templates_file.valid
    /\ templates_file.data = templates

-----------------------------------------------------------------------------
(* Quality audit of a report text *)

InitQA ==
    /\ IdleTemplates /\ IdleDx /\ IdleHistory /\ IdleLog
    /\ patient_info = EmptyDict
    /\ technique_info = [modality |-> "MRI", contrast |-> "Without contrast",
                         sequences |-> "Standard sequences"]
    /\ report_draft = ""
    /\ ai_report \in AuditTexts
    /\ report_date = ""
    /\ IdleOutputs

\* audit_results = st.session_state.quality_assurance.audit_report(report)
AuditReport ==
    /\ \E unit_order \in IterationOrders(units_used(ai_report)) :
          audit_results' = {audit_report(ai_report, unit_order)}
    /\ UNCHANGED <<templateVars, sessionVars, doc, dxVars, historyVars, logVars>>

NextQA == AuditReport

SpecQA == InitQA /\ [][NextQA]_vars

\* C1: whatever deductions and bonuses apply, the score audit_report returns
\* is an integer from 0 to 100 inclusive.
C1_ScoreWithinRange == \A r \in audit_results : r.score \in 0..100

\* an audit whose bonuses exceed its deductions (raw score above 100) and one
\* with several deductions
C1_Witness ==
    \E r \in audit_results :
        /\ r.score = 100
        /\ r.warnings = <<>>
        /\ "Includes comparison with prior studies" \in {r.strengths[i] : i \in 1..Len(r.strengths)}

\* C9: the grade is determined by the clamped score alone, with thresholds
\* 90, 75 and 60, and every score in 0..100 has exactly one grade.
C9_GradeFromScore ==
    /\ \A r \in audit_results :
          /\ (r.grade = "Excellent") <=> (r.score >= 90)
          /\ (r.grade = "Good") <=> (75 <= r.score /\ r.score < 90)
          /\ (r.grade = "Fair") <=> (60 <= r.score /\ r.score < 75)
          /\ (r.grade = "Needs Improvement") <=> (r.score < 60)
    /\ \A s \in 0..100 :
          /\ (Grade(s) = "Excellent") <=> (s >= 90)
          /\ (Grade(s) = "Good") <=> (75 <= s /\ s < 90)
          /\ (Grade(s) = "Fair") <=> (60 <= s /\ s < 75)
          /\ (Grade(s) = "Needs Improvement") <=> (s < 60)

\* an audit that lands exactly on a threshold
C9_Witness == \E r \in audit_results : r.score = 90 /\ r.grade = "Excellent"

\* A section heading in the sense of the report format: an ALL-CAPS line
\* ending in ':'.
SectionHeadingLine(line) ==
    /\ Len(line) >= 2
    /\ CharAt(line, Len(line)) = ":"
    /\ \A i \in 1..(Len(line) - 1) : CharAt(line, i) \in UpperChars \cup {" "}
    /\ \E i \in 1..(Len(line) - 1) : CharAt(line, i) \in UpperChars

RECURSIVE JoinLines(_)
JoinLines(lines) ==
    IF Len(lines) = 0 THEN ""
    ELSE IF Len(lines) = 1 THEN lines[1]
    ELSE lines[1] \o "\n" \o JoinLines(Tail(lines))

HasSection(text, heading) ==
    \E i \in 1..Len(split_lines(text)) : split_lines(text)[i] = heading

\* The body of the FINDINGS section of a report: the lines after the first
\* FINDINGS: heading up to the next section heading or the end of the text.
FindingsBody(text) ==
    LET lines == split_lines(text)
        first == Min({i \in 1..Len(lines) : lines[i] = "FINDINGS:"})
        later == {j \in (first + 1)..Len(lines) : SectionHeadingLine(lines[j])}
        last == IF later = {} THEN Len(lines) ELSE Min(later) - 1
    IN  strip(JoinLines(SubSeq(lines, first + 1, last)))

NoQualifyingTerm(body) ==
    /\ \A i \in 1..Len(ambiguous_terms) : ~Contains(lower(body), ambiguous_terms[i])
    /\ \A i \in 1..Len(forbidden_terms) : ~Contains(lower(body), forbidden_terms[i])

\* C6: a report with FINDINGS: and IMPRESSION: headings whose findings body
\* has 200 characters and no ambiguous or forbidden term scores exactly 100,
\* both without any COMPARISON or DIFFERENTIAL text and with a COMPARISON
\* section.
C6_CleanReportScores100 ==
    \A r \in audit_results :
        ( /\ HasSection(ai_report, "FINDINGS:")
          /\ HasSection(ai_report, "IMPRESSION:")
          /\ Len(FindingsBody(ai_report)) = 200
          /\ NoQualifyingTerm(FindingsBody(ai_report))
          /\ \/ /\ ~Contains(upper(ai_report), "COMPARISON")
                /\ ~Contains(upper(ai_report), "DIFFERENTIAL")
             \/ HasSection(ai_report, "COMPARISON:") )
        => r.score = 100

-----------------------------------------------------------------------------
(* Differential suggestions for a findings text *)

DxFragments ==
    <<{"", "Enhancing mass noted. "},
      {"", "Scattered FLAIR hyperintensity. "},
      {"", "Acute MCA infarct. "},
      {"", "Disc bulge at L4. "},
      {"", "Right lung nodule. "},
      {"", "Liver lesion. "}>>

DxTexts ==
    {a \o b \o c \o d \o e \o f :
        a \in DxFragments[1], b \in DxFragments[2], c \in DxFragments[3],
        d \in DxFragments[4], e \in DxFragments[5], f \in DxFragments[6]}
    \cup {"enhancing mass noted", "No acute abnormality."}

ModalityFilters == {None, "All", "MRI", "CT", "MRI/CT", "Ultrasound"}

InitDx ==
    /\ IdleTemplates /\ IdleSession /\ IdleOutputs /\ IdleHistory /\ IdleLog
    /\ dx_text \in DxTexts
    /\ modality_filter \in ModalityFilters
    /\ differential_results = {}

\* differential_results = generate_differential_diagnosis(draft_text, current_modality)
SuggestDifferentials ==
    /\ differential_results' = {generate_differential_diagnosis(dx_text, modality_filter)}
    /\ UNCHANGED <<templateVars, sessionVars, outputVars, dx_text, modality_filter,
                   historyVars, logVars>>

NextDx == SuggestDifferentials

SpecDx == InitDx /\ [][NextDx]_vars

\* C5: generate_differential_diagnosis returns at most 6 entries, no two with
\* the same diagnosis, and a non-empty list for "enhancing mass noted" without
\* a modality filter.
C5_AtMostSixDistinctDiagnoses ==
    \A r \in differential_results :
        /\ Len(r) <= 6
        /\ \A i, j \in 1..Len(r) : i # j => r[i].diagnosis # r[j].diagnosis
        /\ (dx_text = "enhancing mass noted" /\ modality_filter = None) => Len(r) > 0

\* a text that triggers groups sharing a diagnosis and more than six distinct ones
C5_Witness ==
    \E r \in differential_results :
        /\ Len(r) = 6
        /\ Len(remove_duplicates(matched_entries(lower(dx_text), 1))) > 6
        /\ Len(matched_entries(lower(dx_text), 1))
              > Len(remove_duplicates(matched_entries(lower(dx_text), 1)))

-----------------------------------------------------------------------------
(* The reporting session: patient, technique, draft, Generate, audit, export *)

PatientInputs ==
    {[name |-> "", id |-> "", age |-> "", sex |-> "", history |-> ""],
     [name |-> "Jane Roe", id |-> "P-17", age |-> "54", sex |-> "F",
      history |-> "Headache."]}

TechniqueInputs ==
    {[modality |-> "CT", contrast |-> "With contrast",
      sequences |-> "Standard sequences", body_part |-> "Not specified"],
     [modality |-> "MRI", contrast |-> "Without contrast",
      sequences |-> "T1, T2, FLAIR", body_part |-> "Brain"]}

DraftInputs ==
    {"FINDINGS:\nNo findings.",
     "FINDINGS:\nNo acute abnormality.\n\nIMPRESSION:\nStable.",
     "Findings:\nSmall mass.\n\nimpression: likely benign.",
     "  FINDINGS: \nMRI T1:\nNote:\n\n1. Meningioma - Dural-based",
     "COMPARISON:\nNone available.\n\nFINDINGS:\nNormal study."}

ClockReadings == {"2026-11-01 09:00", "2026-11-02 10:30"}

\* init_session_state, then login
Init ==
    /\ IdleTemplates /\ IdleSession /\ IdleOutputs /\ IdleDx /\ IdleHistory /\ IdleLog

\* the Save Patient Info button
SavePatientInfo(p) ==
    /\ patient_info' = p
    /\ patient_obj' = new_object(report_history)
    /\ audit_results' = {} /\ doc' = {}
    /\ UNCHANGED <<templateVars, technique_info, report_draft, ai_report, report_date, dxVars,
                   report_history, metrics, dicom_metadata, show_analytics, logVars>>

\* the Save Technique button
SaveTechnique(t) ==
    /\ technique_info' = t
    /\ audit_results' = {} /\ doc' = {}
    /\ UNCHANGED <<templateVars, patient_info, report_draft, ai_report, report_date, dxVars,
                   historyVars, logVars>>

\* typing in the draft text area: st.session_state.report_draft = draft_text
EditDraft(draft_text) ==
    /\ report_draft' = draft_text
    /\ audit_results' = {} /\ doc' = {}
    /\ UNCHANGED <<templateVars, patient_info, technique_info, ai_report, report_date, dxVars,
                   historyVars, logVars>>

clear_draft_and_report ==
    /\ report_draft' = ""
    /\ ai_report' = ""
    /\ audit_results' = {} /\ doc' = {}
    /\ UNCHANGED <<templateVars, patient_info, technique_info, report_date, dxVars,
                   historyVars, logVars>>
\* the Clear button
Clear ==
    /\ report_draft' = ""
    /\ audit_results' = {} /\ doc' = {}
    /\ UNCHANGED <<templateVars, patient_info, technique_info, ai_report, report_date, dxVars,
                   historyVars, logVars>>

\* the Generate button, pressed at clock reading now
GenerateAt(now) ==
    /\ RenderBudget
    /\ ai_report' = formatted_report(patient_info, technique_info, report_draft)
    /\ report_date' = now
    /\ metrics' = rendered(metrics, report_history, show_analytics)
    /\ audit_results' = {} /\ doc' = {}
    /\ UNCHANGED <<templateVars, patient_info, technique_info, report_draft, dxVars,
                   patient_obj, report_history, dicom_metadata, show_analytics, logVars>>

Generate == \E now \in ClockReadings : GenerateAt(now)

\* the Quality Assurance Check panel, shown once a report exists
QualityCheck ==
    /\ ai_report # ""
    /\ \E unit_order \in IterationOrders(units_used(ai_report)) :
          audit_results' = {audit_report(ai_report, unit_order)}
    /\ doc' = {}
    /\ UNCHANGED <<templateVars, sessionVars, dxVars, historyVars, logVars>>

\* the Word export of the report shown
ExportWord ==
    /\ ai_report # ""
    /\ \E now \in ClockReadings :
          doc' = {create_word_document(patient_info, ai_report, report_date,
                                       technique_info, current_user, now)}
    /\ audit_results' = {}
    /\ UNCHANGED <<templateVars, sessionVars, dxVars, historyVars, logVars>>

Next ==
    \/ \E p \in PatientInputs : SavePatientInfo(p)
    \/ \E t \in TechniqueInputs : SaveTechnique(t)
    \/ \E d \in DraftInputs : EditDraft(d)
    \/ Clear
    \/ Generate
    \/ QualityCheck
    \/ ExportWord

Spec == Init /\ [][Next]_vars

Range(seq) == {seq[i] : i \in 1..Len(seq)}

\* C4: a report produced by Generate always passes the auditor's IMPRESSION
\* check: no 'Missing required section: IMPRESSION' warning, no deduction
\* for it.
C4_GeneratedReportHasImpression ==
    \A r \in audit_results :
        /\ "IMPRESSION" \notin Range(r.missing_sections)
        /\ "Missing required section: IMPRESSION" \notin Range(r.warnings)
        /\ Len(r.missing_sections) <= 1

\* the audit of a report to which Generate had to add the default block
C4_Witness ==
    /\ audit_results # {}
    /\ Contains(ai_report, DefaultImpression)
    /\ Contains(ai_report, "FINDINGS:\nNo findings.")

\* C13: Generate appends the default IMPRESSION block if and only if the text
\* accumulated so far (patient block, technique block, draft) has no
\* occurrence of "IMPRESSION" in any letter case.
C13_DefaultImpressionIffNoneInAnyCase ==
    [][Generate
         => LET acc == accumulated_report(patient_info, technique_info, report_draft)
            IN  ai_report' = IF Contains(upper(acc), "IMPRESSION")
                             THEN acc
                             ELSE acc \o DefaultImpression]_vars

StartsWith(s, prefix) == Len(s) >= Len(prefix) /\ SubSeq(s, 1, Len(prefix)) = prefix

\* the lines of the TECHNIQUE: block of a report: those after the first
\* TECHNIQUE: line up to the next empty line or the end of the text
TechniqueBlock(text) ==
    LET lines == split_lines(text)
        heads == {i \in 1..Len(lines) : lines[i] = "TECHNIQUE:"}
    IN  IF heads = {} THEN {}
        ELSE LET first == Min(heads)
                 empty == {j \in (first + 1)..Len(lines) : lines[j] = ""}
                 last == IF empty = {} THEN Len(lines) ELSE Min(empty) - 1
             IN  {lines[j] : j \in (first + 1)..last}

\* C14: every report produced by Generate has a TECHNIQUE: block with a
\* Modality line, a Contrast line and a Protocol line, and an unset contrast
\* is rendered as "Without contrast".
C14_TechniqueBlockHasThreeLines ==
    [][Generate
         => LET block == TechniqueBlock(ai_report')
            IN  /\ \E l \in block : StartsWith(l, "Modality: ")
                /\ \E l \in block : StartsWith(l, "Contrast: ")
                /\ \E l \in block : StartsWith(l, "Protocol: ")
                /\ "contrast" \notin DOMAIN technique_info
                      => "Contrast: Without contrast" \in block]_vars

\* the level-1 headings of a document
Headings1(d) == {d[i].text : i \in {k \in 1..Len(d) : d[k].style = "Heading 1"}}

\* the section markers of a text: its lines that end in ':' and are in
\* capitals (at least one letter and no lower-case letter before the colon),
\* blanks around the line aside
SectionMarkers(text) ==
    {l \in {strip(split_lines(text)[i]) : i \in 1..Len(split_lines(text))} :
        /\ Len(l) >= 2
        /\ CharAt(l, Len(l)) = ":"
        /\ \E i \in 1..(Len(l) - 1) : CharAt(l, i) \in UpperChars
        /\ \A i \in 1..(Len(l) - 1) : CharAt(l, i) \notin LowerChars}

\* C7 as stated: the level-1 headings of the serialized report are exactly
\* the section markers of the report text.
C7_HeadingsAreExactlyTheMarkers ==
    \A d \in doc : {h \o ":" : h \in Headings1(d)} = SectionMarkers(ai_report)

\* C7 as amended: the level-1 headings are the section markers of the report
\* text together with the serializer's own headings, REPORT DETAILS always
\* and PATIENT INFORMATION when some patient field is non-empty.
C7_HeadingsAreMarkersAndOwnHeadings ==
    \A d \in doc :
        {h \o ":" : h \in Headings1(d)}
          = SectionMarkers(ai_report)
            \cup {"REPORT DETAILS:"}
            \cup (IF \E k \in DOMAIN patient_info : patient_info[k] # ""
                  THEN {"PATIENT INFORMATION:"} ELSE {})

\* the export of a report that was assembled before the patient data were
\* entered and whose text has an indented marker and a colon line in lower case
C7_Witness ==
    /\ doc # {}
    /\ \E k \in DOMAIN patient_info : patient_info[k] # ""
    /\ ~Contains(ai_report, "PATIENT INFORMATION:")
    /\ Contains(ai_report, "  FINDINGS: \n")
    /\ Contains(ai_report, "\nNote:\n")

-----------------------------------------------------------------------------
(* The session with DICOM upload, quick templates, differentials and the
   report history *)

MaxSaved == 1
MaxDraftLen == 1

quick_templates ==
    [k \in {"Normal Brain MRI", "White Matter Changes", "Disc Herniation"} |->
       CASE k = "Normal Brain MRI" ->
              "Normal study. No acute intracranial hemorrhage, mass effect, or territorial infarct. Ventricles and sulci are normal. No abnormal enhancement."
         [] k = "White Matter Changes" ->
              "Scattered punctate FLAIR hyperintensities in the periventricular and deep white matter, consistent with chronic microvascular ischemic changes."
         [] k = "Disc Herniation" ->
              "Disc bulge/protrusion causing mild neural foraminal narrowing without significant cord compression."]

\* what pydicom makes of an uploaded file
DicomFiles ==
    {[readable |-> FALSE, error |-> "File is missing DICOM File Meta Information header",
      dataset |-> [k \in {} |-> ""]],
     [readable |-> TRUE, error |-> "",
      dataset |-> [k \in {"PatientName", "PatientID", "PatientSex", "PatientAge", "Modality"} |->
                     CASE k = "PatientName" -> "Doe^John"
                       [] k = "PatientID" -> "D-1"
                       [] k = "PatientSex" -> "O"
                       [] k = "PatientAge" -> "061Y"
                       [] k = "Modality" -> "MR"]],
     [readable |-> TRUE, error |-> "",
      dataset |-> [k \in {"Modality", "SliceThickness"} |->
                     CASE k = "Modality" -> "CT"
                       [] k = "SliceThickness" -> "5.0"]]}

HistoryPatientInputs ==
    {[name |-> "Jane Roe", id |-> "P-17", age |-> "54", sex |-> "F", history |-> "Headache."]}

HistoryTechniqueInputs ==
    {[modality |-> "CT", contrast |-> "With contrast",
      sequences |-> "Standard sequences", body_part |-> "Not specified"]}

HistoryDraftInput == "FINDINGS:\nAcute infarct."

HistoryClock == "2026-11-01 09:00"

\* the Extract DICOM Metadata button
ExtractDicom(dicom_file) ==
    /\ dicom_metadata' = {extract_metadata(dicom_file)}
    /\ LET metadata == extract_metadata(dicom_file)
           from_dicom == populate_patient_info(metadata)
       IN  IF Get(metadata, "Success", FALSE) /\ DOMAIN from_dicom # {}
           THEN /\ patient_info' = update(patient_info, from_dicom)
                /\ report_history' = update_in_place(report_history, patient_obj,
                                                      update(patient_info, from_dicom))
           ELSE UNCHANGED <<patient_info, report_history>>
    /\ audit_results' = {} /\ doc' = {}
    /\ UNCHANGED <<templateVars, technique_info, report_draft, ai_report, report_date, dxVars,
                   patient_obj, metrics, show_analytics, logVars>>

\* the AI Suggestions button
AISuggestions ==
    /\ differential_results' =
          {generate_differential_diagnosis(report_draft, Get(technique_info, "modality", "All"))}
    /\ audit_results' = {} /\ doc' = {}
    /\ UNCHANGED <<templateVars, sessionVars, dx_text, modality_filter, historyVars, logVars>>

\* int(text) where the text starts with a digit after white space: the
\* number when the stripped text is digits only, {} when int() raises
to_int(text) ==
    LET t == strip(text)
        value[k \in 0..Len(t)] ==
            IF k = 0 THEN 0
            ELSE 10 * value[k - 1]
                 + (CHOOSE d \in 0..9 : ToString(d) = CharAt(t, k))
    IN  IF Len(t) > 0 /\ \A k \in 1..Len(t) : CharAt(t, k) \in Digits
        THEN {value[Len(t)]}
        ELSE {}

\* the number the Add button gives the next differential: one more than the
\* number of the last numbered line, searching upwards past lines whose
\* number cannot be read
RECURSIVE last_number(_, _)
last_number(lines, k) ==
    IF k = 0 THEN 1
    ELSE LET line == lines[k]
             st == strip(line)
         IN  IF Len(st) > 0 /\ CharAt(st, 1) \in Digits
                /\ to_int(split(line, ".")[1]) # {}
             THEN (CHOOSE n \in to_int(split(line, ".")[1]) : TRUE) + 1
             ELSE last_number(lines, k - 1)

\* the text the Add button appends for the suggestion dx
differential_line_with_heading(draft, dx) ==
    "\n\nDIFFERENTIAL DIAGNOSIS:\n1. " \o dx.diagnosis \o " - " \o dx.features
differential_line(draft, dx) ==
    IF ~Contains(draft, "DIFFERENTIAL DIAGNOSIS:")
    THEN "\n\nDIFFERENTIAL DIAGNOSIS:\n1. " \o dx.diagnosis \o " - " \o dx.features
    ELSE "\n" \o ToString(last_number(split_lines(draft), Len(split_lines(draft))))
         \o ". " \o dx.diagnosis \o " - " \o dx.features

\* the Add button of suggestion i (0-based) in the suggestions panel
add_dx(i) ==
    /\ differential_results # {}
    /\ \E results \in differential_results :
          /\ i < Len(results)
          /\ report_draft' = report_draft \o differential_line(report_draft, results[i + 1])
    /\ audit_results' = {} /\ doc' = {}
    /\ UNCHANGED <<templateVars, patient_info, technique_info, ai_report, report_date, dxVars,
                   historyVars, logVars>>

\* the Add button on a draft of bounded length
AddDifferential(i) == Len(report_draft) < MaxDraftLen /\ add_dx(i)

\* a quick-template button of the template library
QuickTemplate(name) ==
    /\ Len(report_draft) < MaxDraftLen
    /\ report_draft' = report_draft \o "\n\nFINDINGS:\n" \o quick_templates[name]
    /\ audit_results' = {} /\ doc' = {}
    /\ UNCHANGED <<templateVars, patient_info, technique_info, ai_report, report_date, dxVars,
                   historyVars, logVars>>

\* the Save to History button, shown once a report exists
SaveToHistory ==
    /\ ai_report # ""
    /\ RenderBudget
    /\ Len(metrics.report_length) < MaxSaved
    /\ LET entry == history_entry(report_name(patient_info, report_date), report_date,
                                  patient_info, patient_obj, technique_info, ai_report,
                                  current_user)
       IN  /\ report_history' = Append(report_history, entry)
           /\ metrics' = update_metrics(rendered(metrics, report_history, show_analytics),
                                         entry)
    /\ audit_results' = {} /\ doc' = {}
    /\ UNCHANGED <<templateVars, sessionVars, dxVars, patient_obj, dicom_metadata,
                   show_analytics, logVars>>

\* the Load button of entry i (0-based) of the history panel; st.rerun()
\* runs the page script a second time
LoadHistory(i) ==
    /\ i < Len(shown_reports(report_history))
    /\ RenderBudget
    /\ LET report == shown_reports(report_history)[i + 1]
       IN  /\ patient_info' = report.patient_info
           /\ patient_obj' = report.patient_obj
           /\ technique_info' = report.technique_info
           /\ ai_report' = report.report
           /\ report_date' = report.date
    /\ metrics' = rendered(rendered(metrics, report_history, show_analytics),
                           report_history, show_analytics)
    /\ audit_results' = {} /\ doc' = {}
    /\ UNCHANGED <<templateVars, report_draft, dxVars, report_history,
                   dicom_metadata, show_analytics, logVars>>

\* the Delete button of entry i (0-based) of the history panel; st.rerun()
\* runs the page script a second time
delete_slice_index(i) ==
    /\ i < Len(shown_reports(report_history))
    /\ RenderBudget
    /\ report_history' = pop(report_history, i)
    /\ metrics' = rendered(rendered(metrics, report_history, show_analytics),
                           report_history', show_analytics)
    /\ audit_results' = {} /\ doc' = {}
    /\ UNCHANGED <<templateVars, sessionVars, dxVars, patient_obj,
                   dicom_metadata, show_analytics, logVars>>
DeleteHistory(i) ==
    /\ i < Len(shown_reports(report_history))
    /\ RenderBudget
    /\ LET report_idx == Len(report_history) - 1 - i
       IN  report_history' = pop(report_history, report_idx)
    /\ metrics' = rendered(rendered(metrics, report_history, show_analytics),
                           report_history', show_analytics)
    /\ audit_results' = {} /\ doc' = {}
    /\ UNCHANGED <<templateVars, sessionVars, dxVars, patient_obj,
                   dicom_metadata, show_analytics, logVars>>

\* init_session_state: differential_results starts as the empty list
InitHistory ==
    /\ IdleTemplates /\ IdleSession /\ IdleOutputs /\ IdleHistory /\ IdleLog
    /\ dx_text = "" /\ modality_filter = "None" /\ differential_results = {<<>>}

\* the history panel with the patient, technique and DICOM panels
NextHistory ==
    \/ \E p \in HistoryPatientInputs : SavePatientInfo(p)
    \/ \E t \in HistoryTechniqueInputs : SaveTechnique(t)
    \/ \E f \in DicomFiles : ExtractDicom(f)
    \/ EditDraft(HistoryDraftInput)
    \/ GenerateAt(HistoryClock)
    \/ SaveToHistory
    \/ \E i \in 0..4 : LoadHistory(i)
    \/ \E i \in 0..4 : DeleteHistory(i)

SpecHistory == InitHistory /\ [][NextHistory]_vars

-----------------------------------------------------------------------------
(* Every action of the page on one session *)

\* Save Technique pressed with the panel as it first shows
DefaultTechniqueInput ==
    [modality |-> "MRI", contrast |-> "Without contrast",
     sequences |-> "Standard sequences", body_part |-> "Not specified"]

\* Save Patient Info pressed with the form left blank
BlankPatientInput == [name |-> "", id |-> "", age |-> "", sex |-> "", history |-> ""]

SessionDicomFiles == {f \in DicomFiles : ~f.readable}

\* the draft typed by hand: the text a quick template would give
SessionDraftInput == "\n\nFINDINGS:\n" \o quick_templates["White Matter Changes"]

NextSession ==
    \/ SavePatientInfo(BlankPatientInput)
    \/ SaveTechnique(DefaultTechniqueInput)
    \/ \E f \in SessionDicomFiles : ExtractDicom(f)
    \/ EditDraft(SessionDraftInput)
    \/ Clear
    \/ QuickTemplate("White Matter Changes")
    \/ AISuggestions
    \/ AddDifferential(0)
    \/ GenerateAt(HistoryClock)
    \/ QualityCheck
    \/ SaveToHistory
    \/ \E i \in 0..4 : LoadHistory(i)
    \/ \E i \in 0..4 : DeleteHistory(i)

SpecSession == InitHistory /\ [][NextSession]_vars

\* C15: the assembled report text and its date change only by Generate
\* (re-assembly from the draft) or by Load from the history; every other
\* action (patient, technique, DICOM, editing or clearing the draft, quick
\* templates, suggestions, adding a differential, the quality check, saving
\* to and deleting from the history) leaves both unchanged.
C15_ReportChangesOnlyByGenerateOrLoad ==
    [][(ai_report' # ai_report \/ report_date' # report_date)
          => (Generate \/ \E i \in 0..4 : LoadHistory(i))]_vars

\* a report assembled from a quick-template draft, still unchanged after the
\* draft was cleared and a differential was added to the new draft
C15_Witness ==
    /\ Contains(ai_report, quick_templates["White Matter Changes"])
    /\ ~Contains(ai_report, "DIFFERENTIAL DIAGNOSIS:")
    /\ Contains(report_draft, "DIFFERENTIAL DIAGNOSIS:")
    /\ ~Contains(report_draft, "FINDINGS:")
    /\ report_date = HistoryClock
    /\ Len(report_history) = 1

\* C16: a history entry is a snapshot.  The only changes ever made to the
\* history are appending one entry and deleting one entry by index; the
\* fields of an entry already in the history never change, whatever is done
\* afterwards (DICOM update, Save Patient Info, Save Technique, Generate, Load).
C16_HistoryEntriesNeverChange ==
    [][\/ report_history' = report_history
       \/ /\ Len(report_history') = Len(report_history) + 1
          /\ SubSeq(report_history', 1, Len(report_history)) = report_history
       \/ \E index \in 0..(Len(report_history) - 1) :
             report_history' = pop(report_history, index)]_vars

\* C19: when DICOM metadata extraction fails, the failure comes back as a
\* value (Success = false with the error message), nothing is raised, and the
\* extract action leaves the patient info, the technique info, the draft,
\* the assembled report and the history unchanged.
C19_DicomFailureLeavesStateUnchanged ==
    [][\A f \in DicomFiles :
          (ExtractDicom(f) /\ ~f.readable)
          => /\ dicom_metadata' = {[Success |-> FALSE, Error |-> f.error]}
             /\ raised' = {}
             /\ UNCHANGED <<patient_info, technique_info, report_draft, ai_report,
                            report_date, report_history>>]_vars

\* a failed extraction in a session that holds patient data from an earlier
\* successful extraction, a draft, a report and a saved entry
C19_Witness ==
    /\ \E md \in dicom_metadata : ~md.Success /\ md.Error # ""
    /\ Get(patient_info, "name", "") = "John Doe"
    /\ Get(patient_info, "history", "") = "Headache."
    /\ report_draft = HistoryDraftInput
    /\ Contains(ai_report, "Name: Jane Roe")
    /\ Len(report_history) = 1

-----------------------------------------------------------------------------
(* Persistence: the template store and the audit log under failing writes *)

MaxLogEntries == 2

PersistenceTemplateInputs ==
    {<<"No acute abnormality.", "findings">>, <<"Lungs are clear.", "technique">>}

\* the reports whose audit is on the page
PersistenceReports ==
    {"FINDINGS:\nNormal study.\n\nIMPRESSION:\nStable.",
     "FINDINGS:\n" \o B50 \o "\n\nIMPRESSION:\nNo acute abnormality."}

\* audit_logs.json as earlier sessions can have left it
InitialLogFiles ==
    {NoLogFile,
     [exists |-> TRUE, valid |-> FALSE, data |-> <<>>],
     [exists |-> TRUE, valid |-> TRUE,
      data |-> <<[report_id |-> "P-17_20261031_170000",
                  timestamp |-> "2026-10-31T17:00:00",
                  user |-> "neuro", score |-> 100, grade |-> "Excellent",
                  warnings |-> <<>>, suggestions |-> <<>>]>>]}

\* the log a reader of audit_logs.json gets
persisted_log(file) == IF file.exists /\ file.valid THEN file.data ELSE <<>>

\* a session with a report and its quality check on the page
InitPersistence ==
    /\ current_user = "neuro"
    /\ templates_file \in InitialFiles
    /\ templates = load_templates(templates_file)
    /\ call = NoCall
    /\ ret = {}
    /\ applied = [n \in DOMAIN templates |-> templates[n].used_count]
    /\ write_failures = 0
    /\ patient_info = EmptyDict
    /\ technique_info = [modality |-> "MRI", contrast |-> "Without contrast",
                         sequences |-> "Standard sequences"]
    /\ report_draft = ""
    /\ ai_report \in PersistenceReports
    /\ report_date = HistoryClock
    /\ audit_results = {audit_report(ai_report, <<>>)}
    /\ doc = {}
    /\ IdleDx /\ IdleHistory
    /\ audit_log_file \in InitialLogFiles
    /\ raised = {}

\* the Save Quality Report button
SaveQualityReport ==
    /\ ai_report # "" /\ audit_results # {}
    /\ Len(persisted_log(audit_log_file)) < MaxLogEntries
    /\ \E now \in ClockReadings, outcome \in WriteOutcomes, results \in audit_results :
          LET report_id == Get(patient_info, "id", "unknown") \o "_" \o strftime_compact(now)
              r == save_audit_log(audit_log_file, report_id, results, current_user, now,
                                  outcome)
          IN  /\ audit_log_file' = r.file
              /\ raised' = r.raised
              /\ write_failures' = write_failures + (IF outcome = "written" THEN 0 ELSE 1)
              /\ call' = [op |-> "save_audit_log", name |-> report_id, content |-> "",
                          template_type |-> "", current_text |-> ""]
    /\ ret' = {}
    /\ UNCHANGED <<current_user, templates, templates_file, applied, sessionVars,
                   outputVars, dxVars, historyVars>>

NextPersistence ==
    \/ \E input \in PersistenceTemplateInputs :
          AddTemplate("Normal Brain MRI", input[1], input[2])
    \/ \E name \in {"Normal Brain MRI", "Knee MRI"} : ApplyTemplate(name, "")
    \/ SaveQualityReport

SpecPersistence == InitPersistence /\ [][NextPersistence]_vars

\* C17: the audit log is append-only.  After every save_audit_log call the
\* persisted log is the log persisted before the call followed by exactly
\* one new entry; no earlier entry is removed or altered.
C17_AuditLogAppendOnly ==
    [][SaveQualityReport
         => LET before == persisted_log(audit_log_file)
                after == persisted_log(audit_log_file')
            IN  /\ Len(after) = Len(before) + 1
                /\ SubSeq(after, 1, Len(before)) = before]_vars

\* C18: no persistence failure propagates.  When the write of the template
\* store or of the audit log fails, add_template, apply_template and
\* save_audit_log still return normally, and the in-memory templates and the
\* session state are as after a successful write.
C18_WriteFailureNeverPropagates ==
    [][(write_failures' > write_failures)
          => /\ raised' = {}
             /\ templates' =
                   (CASE call'.op = "add_template" ->
                           add_template(templates, call'.name, call'.content,
                                        call'.template_type, current_user)
                      [] call'.op = "apply_template" ->
                           apply_template(templates, call'.name, call'.current_text).templates
                      [] OTHER -> templates)
             /\ UNCHANGED <<sessionVars, outputVars, historyVars>>]_vars

\* C20: in audit_report the findings text that is measured and scanned is the
\* text after FINDINGS: up to the next ALL-CAPS heading ending in ':' (a
\* multi-word heading and a heading after a single newline included) or the
\* end of the text; a lower-case 'word:' does not end it.
C20_FindingsEndAtNextHeading ==
    \A r \in audit_results :
        HasSection(ai_report, "FINDINGS:")
        => findings_text(ai_report) = FindingsBody(ai_report)

-----------------------------------------------------------------------------
(* The deductions of audit_report, read off the messages of its result *)

\* how many elements of seq are the message msg / start with prefix
CountOf(seq, msg) == Cardinality({i \in 1..Len(seq) : seq[i] = msg})
CountPrefix(seq, prefix) == Cardinality({i \in 1..Len(seq) : StartsWith(seq[i], prefix)})

\* the score that the messages of an audit result account for: 100, less 20
\* per missing section, 10 for brief, 5 for verbose, 3 per ambiguous term and
\* 5 per vague term, plus 10 and 5 for the two bonuses, kept within 0..100
ScoreOfMessages(r) ==
    LET raw == 100 - 20 * CountPrefix(r.warnings, "Missing required section: ")
                   - 10 * CountPrefix(r.warnings, "Findings section is brief (")
                   - 5 * CountPrefix(r.warnings, "Findings section is verbose (")
                   - 3 * CountPrefix(r.suggestions, "Consider clarifying ambiguous term: ")
                   - 5 * CountPrefix(r.warnings, "Avoid vague term: ")
                   + 10 * CountOf(r.strengths, "Includes comparison with prior studies")
                   + 5 * CountOf(r.strengths, "Includes differential diagnosis")
    IN  IF raw > 100 THEN 100 ELSE IF raw < 0 THEN 0 ELSE raw

\* the FINDINGS: search of audit_report found a section
FindingsLocated == findings_match(ai_report) # {}

\* C21: for each required section (FINDINGS, IMPRESSION) audit_report deducts
\* 20 points and adds one 'Missing required section' warning iff the section
\* name does not occur in the report as a case-insensitive substring; when it
\* occurs there is no deduction and no warning for it.
C21_MissingSectionDeduction ==
    \A r \in audit_results :
        /\ \A section \in {"FINDINGS", "IMPRESSION"} :
              CountOf(r.warnings, "Missing required section: " \o section)
                = (IF Contains(lower(ai_report), lower(section)) THEN 0 ELSE 1)
        /\ CountPrefix(r.warnings, "Missing required section: ")
              = Cardinality({section \in {"FINDINGS", "IMPRESSION"} :
                               ~Contains(lower(ai_report), lower(section))})
        /\ r.score = ScoreOfMessages(r)

\* a report with a mixed-case Findings: heading and no impression: one
\* warning, for IMPRESSION only, and 20 points off
C21_Witness ==
    \E r \in audit_results :
        /\ Contains(ai_report, "Findings:") /\ ~Contains(ai_report, "FINDINGS")
        /\ r.missing_sections = <<"IMPRESSION">>
        /\ r.warnings = <<"Missing required section: IMPRESSION">>
        /\ r.score = 80

\* C22: when a FINDINGS section is located exactly one of three length
\* outcomes applies: length < 50 gives 10 points off and a 'brief' warning,
\* length > 2000 gives 5 points off and a 'verbose' warning, a length from 50
\* to 2000 gives no deduction and the 'appropriate length' strength; when no
\* section is located none of the three applies.
C22_FindingsLengthOutcome ==
    \A r \in audit_results :
        LET n == Len(findings_text(ai_report))
            brief == CountPrefix(r.warnings, "Findings section is brief (")
            verbose == CountPrefix(r.warnings, "Findings section is verbose (")
            fine == CountOf(r.strengths, "Findings section has appropriate length")
        IN  /\ FindingsLocated /\ n < 50 => brief = 1 /\ verbose = 0 /\ fine = 0
            /\ FindingsLocated /\ n > 2000 => brief = 0 /\ verbose = 1 /\ fine = 0
            /\ FindingsLocated /\ n >= 50 /\ n <= 2000 => brief = 0 /\ verbose = 0 /\ fine = 1
            /\ ~FindingsLocated => brief = 0 /\ verbose = 0 /\ fine = 0
            /\ CountOf(r.suggestions, "Consider adding more descriptive details") = brief
            /\ CountOf(r.suggestions, "Consider being more concise") = verbose
            /\ r.score = ScoreOfMessages(r)

\* a findings text of exactly 50 characters, audited as of appropriate length
C22_Witness ==
    \E r \in audit_results :
        /\ FindingsLocated
        /\ Len(findings_text(ai_report)) = 50
        /\ r.strengths = <<"Findings section has appropriate length">>
        /\ r.score = 100

\* C23: the ambiguous-language deduction is 3 points per distinct ambiguous
\* term found in the findings text, however often the term occurs: one
\* suggestion per term present, at most six, so at most 18 points.
C23_AmbiguousPerDistinctTerm ==
    \A r \in audit_results :
        LET present == {t \in Range(ambiguous_terms) :
                          FindingsLocated /\ Contains(lower(findings_text(ai_report)), t)}
        IN  /\ \A t \in Range(ambiguous_terms) :
                  CountOf(r.suggestions, "Consider clarifying ambiguous term: '" \o t \o "'")
                    = (IF t \in present THEN 1 ELSE 0)
            /\ CountPrefix(r.suggestions, "Consider clarifying ambiguous term: ")
                  = Cardinality(present)
            /\ 3 * Cardinality(present) <= 18
            /\ r.score = ScoreOfMessages(r)

\* a findings text in which 'possible' occurs twice and 'likely' once: two
\* suggestions and 6 points off
C23_Witness ==
    \E r \in audit_results :
        /\ FindingsLocated
        /\ Occurrences(lower(findings_text(ai_report)), "possible") = 2
        /\ r.suggestions = <<"Consider clarifying ambiguous term: 'possible'",
                             "Consider clarifying ambiguous term: 'likely'">>
        /\ r.warnings = <<>>
        /\ r.score = 94

\* C24: for each forbidden vague term (normal, unremarkable) audit_report
\* deducts 5 points and adds a warning iff the term occurs in the findings
\* text and the findings length is below 100; a findings text of 100
\* characters or more is never penalised for these terms.
C24_VagueTermsOnlyInShortFindings ==
    \A r \in audit_results :
        LET text == findings_text(ai_report)
            penalised == {t \in {"normal", "unremarkable"} :
                            FindingsLocated /\ Contains(lower(text), t) /\ Len(text) < 100}
        IN  /\ \A t \in {"normal", "unremarkable"} :
                  CountOf(r.warnings,
                          "Avoid vague term: '" \o t \o "' without supporting details")
                    = (IF t \in penalised THEN 1 ELSE 0)
            /\ CountPrefix(r.warnings, "Avoid vague term: ") = Cardinality(penalised)
            /\ r.score = ScoreOfMessages(r)

\* a findings text of exactly 100 characters that holds 'normal' and is not
\* penalised for it
C24_Witness ==
    \E r \in audit_results :
        /\ FindingsLocated
        /\ Len(findings_text(ai_report)) = 100
        /\ Contains(lower(findings_text(ai_report)), "normal")
        /\ CountPrefix(r.warnings, "Avoid vague term: ") = 0

-----------------------------------------------------------------------------
(* Order and filtering of the differential suggestions *)

\* the groups in declaration order and the entries (group, index) of the data
\* base
GroupOrder ==
    <<"brain_lesion_enhancing", "white_matter", "stroke", "spinal_lesion", "lung_nodule",
      "liver_lesion">>
GroupWords ==
    [brain_lesion_enhancing |-> {"enhanc", "mass", "tumor", "neoplasm", "gadolinium"},
     white_matter |-> {"white matter", "flair", "hyperintensity", "msa", "demyelinating"},
     stroke |-> {"stroke", "infarct", "ischemi", "mca", "aca", "pca"},
     spinal_lesion |-> {"spinal", "cord", "disc", "vertebral", "canal", "foraminal"},
     lung_nodule |-> {"lung", "pulmonary", "nodule", "chest", "thorax", "pleural"},
     liver_lesion |-> {"liver", "hepatic", "lesion", "hepato", "portal"}]
EntryAt(pos) == DIFFERENTIAL_DATABASE[GroupOrder[pos[1]]][pos[2]]
Earlier(p, q) == p[1] < q[1] \/ (p[1] = q[1] /\ p[2] < q[2])

\* a modality filter is supplied
FilterSupplied == modality_filter \notin {None, "", "All"}

\* the entries of the groups one of whose keywords is in the lower-cased
\* text, less those a supplied filter excludes
CandidateEntries ==
    {pos \in (1..6) \X (1..3) :
        /\ pos[2] <= Len(DIFFERENTIAL_DATABASE[GroupOrder[pos[1]]])
        /\ \E w \in GroupWords[GroupOrder[pos[1]]] : Contains(lower(dx_text), w)
        /\ FilterSupplied => EntryAt(pos).modality = modality_filter}

\* of these, the first of each diagnosis
FirstOfDiagnosis ==
    {pos \in CandidateEntries :
        \A q \in CandidateEntries :
            EntryAt(q).diagnosis = EntryAt(pos).diagnosis => ~Earlier(q, pos)}

\* C25: with a modality filter supplied every returned entry has the filter's
\* modality, and filtering comes before deduplication: when the first entry
\* of a diagnosis in group order does not match the filter but a later entry
\* of the same diagnosis does, the later entry is returned.
C25_FilterBeforeDeduplication ==
    \A r \in differential_results :
        FilterSupplied
        => /\ \A i \in 1..Len(r) : r[i].modality = modality_filter
           /\ \A pos \in FirstOfDiagnosis :
                 \/ \E i \in 1..Len(r) : r[i] = EntryAt(pos)
                 \/ Len(r) = 6

\* filter CT on a text that triggers the brain-lesion and the lung groups:
\* the MRI Metastasis of the brain group comes first in group order, the CT
\* Metastasis of the lung group is the one returned
C25_Witness ==
    \E r \in differential_results :
        /\ modality_filter = "CT"
        /\ Contains(lower(dx_text), "mass") /\ Contains(lower(dx_text), "lung")
        /\ \E i \in 1..Len(r) :
              /\ r[i].diagnosis = "Metastasis"
              /\ r[i].features = "Multiple, peripheral"
              /\ r[i].modality = "CT"

\* C26: a group's entries are included iff one of its trigger keywords is a
\* substring of the lower-cased text; the result is in group declaration
\* order, then entry order within the group, keeps only the first occurrence
\* of each diagnosis, is never reordered by confidence, and is cut to 6.
C26_GroupOrderFirstOccurrence ==
    \A r \in differential_results :
        /\ Len(r) = (IF Cardinality(FirstOfDiagnosis) < 6
                     THEN Cardinality(FirstOfDiagnosis) ELSE 6)
        /\ \A i \in 1..Len(r) :
              \E pos \in FirstOfDiagnosis :
                  /\ r[i] = EntryAt(pos)
                  /\ Cardinality({q \in FirstOfDiagnosis : Earlier(q, pos)}) = i - 1

\* a truncated result in which a Medium entry stands before a High one and a
\* repeated diagnosis was dropped
C26_Witness ==
    \E r \in differential_results :
        /\ Len(r) = 6
        /\ Cardinality(FirstOfDiagnosis) > 6
        /\ Cardinality(CandidateEntries) > Cardinality(FirstOfDiagnosis)
        /\ \E i, j \in 1..Len(r) :
              i < j /\ r[i].confidence = "Medium" /\ r[j].confidence = "High"
        /\ ~Contains(lower(dx_text), "white matter")
        /\ Contains(lower(dx_text), "flair")

-----------------------------------------------------------------------------
(* The body of the Word document, line by line *)

\* the element a line of the report text stands for, white space around the
\* line aside: an empty paragraph for a blank line, a level-1 heading for a
\* line that ends in ':' and whose text before the colon, spaces removed,
\* has capitals and no lower-case letter, a plain paragraph otherwise
ElementOfLine(line) ==
    LET l == strip(line)
        before == {i \in 1..(Len(l) - 1) : CharAt(l, i) # " "}
    IN  IF l = "" THEN [style |-> "Normal", text |-> ""]
        ELSE IF /\ CharAt(l, Len(l)) = ":"
                /\ \E i \in before : CharAt(l, i) \in UpperChars
                /\ \A i \in before : CharAt(l, i) \notin LowerChars
        THEN [style |-> "Heading 1", text |-> SubSeq(l, 1, Len(l) - 1)]
        ELSE [style |-> "Normal", text |-> l]

\* C27: create_word_document turns every line of the report text into
\* exactly one element, in line order: a blank line into an empty paragraph,
\* a line ending in ':' whose text before the colon, spaces removed, is
\* upper-case into a level-1 heading of the line less the colon, any other
\* line into a plain paragraph; the body has as many elements as the text
\* has lines, between the spacing paragraph and the page break.
C27_OneElementPerLine ==
    \A d \in doc :
        LET lines == split_lines(ai_report)
            n == Len(lines)
            first == Len(d) - 3 - n + 1
        IN  /\ first >= 4
            /\ d[1].style = "Title"
            /\ d[first - 1] = [style |-> "Normal", text |-> ""]
            /\ \A i \in 1..n : d[first + i - 1] = ElementOfLine(lines[i])
            /\ d[first + n].style = "Page Break"
            /\ raised = {}

\* the export of a report with a blank line, an indented heading, a heading
\* with a digit, a lower-case colon line and a numbered item
C27_Witness ==
    \E d \in doc :
        /\ Contains(ai_report, "  FINDINGS: \nMRI T1:\nNote:\n\n1. Meningioma")
        /\ [style |-> "Heading 1", text |-> "FINDINGS"] \in Range(d)
        /\ [style |-> "Heading 1", text |-> "MRI T1"] \in Range(d)
        /\ [style |-> "Normal", text |-> "Note:"] \in Range(d)
        /\ \A k \in DOMAIN patient_info : patient_info[k] = ""

-----------------------------------------------------------------------------
(* The history panel and the analytics dashboard on a session with saved
   reports *)

MaxHistory == 6

\* the k-th patient of the session and the report generated and saved for them
SavedPatient(k) ==
    [name |-> "Patient " \o ToString(k), id |-> "P-" \o ToString(k), age |-> "",
     sex |-> "", history |-> ""]
SavedDate(k) == "2026-10-0" \o ToString(k) \o " 09:00"
SavedEntry(k) ==
    history_entry(report_name(SavedPatient(k), SavedDate(k)), SavedDate(k), SavedPatient(k),
                  k - 1,
                  [modality |-> "MRI", contrast |-> "Without contrast",
                   sequences |-> "Standard sequences"],
                  formatted_report(SavedPatient(k),
                                   [modality |-> "MRI", contrast |-> "Without contrast",
                                    sequences |-> "Standard sequences"],
                                   HistoryDraftInput),
                  "default")

\* the session after n rounds of Save Patient Info, Generate and Save to
\* History, the dashboard never shown so far
InitHistoryView ==
    /\ IdleTemplates /\ IdleOutputs /\ IdleLog
    /\ dx_text = "" /\ modality_filter = "None" /\ differential_results = {<<>>}
    /\ \E n \in 0..MaxHistory :
          /\ report_history = [k \in 1..n |-> SavedEntry(k)]
          /\ metrics = update_with_all(InitMetrics, [k \in 1..n |-> SavedEntry(k)])
          /\ patient_info = (IF n = 0 THEN EmptyDict ELSE SavedPatient(n))
          /\ patient_obj = (IF n = 0 THEN 0 ELSE n - 1)
          /\ report_draft = (IF n = 0 THEN "" ELSE HistoryDraftInput)
          /\ ai_report = (IF n = 0 THEN "" ELSE SavedEntry(n).report)
          /\ report_date = (IF n = 0 THEN "" ELSE SavedDate(n))
    /\ technique_info = [modality |-> "MRI", contrast |-> "Without contrast",
                         sequences |-> "Standard sequences"]
    /\ dicom_metadata = {}
    /\ show_analytics = FALSE

\* the Analytics button: the flag flips and st.rerun() runs the page script
ToggleAnalytics ==
    /\ Len(metrics.report_length) < MaxSamples
    /\ show_analytics' = ~show_analytics
    /\ metrics' = rendered(metrics, report_history, ~show_analytics)
    /\ audit_results' = {} /\ doc' = {}
    /\ UNCHANGED <<templateVars, sessionVars, dxVars, patient_obj, report_history,
                   dicom_metadata, logVars>>

NextHistoryView ==
    \/ EditDraft(HistoryDraftInput)
    \/ GenerateAt(HistoryClock)
    \/ SaveToHistory
    \/ \E i \in 0..4 : LoadHistory(i)
    \/ \E i \in 0..4 : DeleteHistory(i)
    \/ ToggleAnalytics

SpecHistoryView == InitHistoryView /\ [][NextHistoryView]_vars

\* C28: the history view shows the last five entries newest first; Delete on
\* the displayed entry at position i removes exactly that entry, for every
\* history length, lengths above five included; all other entries remain in
\* their original relative order.
C28_DeleteRemovesDisplayedEntry ==
    [][\A i \in 0..4 :
          DeleteHistory(i)
          => LET n == Len(report_history)
                 at == n - i
             IN  /\ i < n
                 /\ Len(report_history') = n - 1
                 /\ \A k \in 1..(at - 1) : report_history'[k] = report_history[k]
                 /\ \A k \in at..(n - 1) : report_history'[k] = report_history[k + 1]]_vars

\* six saved reports of which the third newest was deleted: the two oldest
\* and the other three of the five shown remain, in order
C28_Witness ==
    /\ Len(report_history) = 5
    /\ [k \in 1..5 |-> report_history[k].name]
          = <<"Patient 1_2026-10-01", "Patient 2_2026-10-02", "Patient 3_2026-10-03",
              "Patient 5_2026-10-05", "Patient 6_2026-10-06">>

\* the numbers of a defaultdict(int), added up
RECURSIVE SumOfCounts(_)
SumOfCounts(d) ==
    IF DOMAIN d = {} THEN 0
    ELSE LET k == CHOOSE x \in DOMAIN d : TRUE
         IN  d[k] + SumOfCounts([x \in DOMAIN d \ {k} |-> d[x]])

\* C29: after any sequence of Save to History, deletions and dashboard
\* renders the analytics counters count each history entry exactly once: the
\* per-user productivity counts add up to the number of history entries, so
\* does the number of recorded report lengths, and the critical-findings
\* count does not exceed it (Critical Findings % is at most 100).
C29_MetricsCountEachEntryOnce ==
    /\ SumOfCounts(metrics.user_productivity) = Len(report_history)
    /\ Len(metrics.report_length) = Len(report_history)
    /\ metrics.critical_findings_count <= Len(report_history)

-----------------------------------------------------------------------------
(* Adding differential suggestions to the draft *)

MaxDraftLines == 8

\* drafts without a DIFFERENTIAL DIAGNOSIS: heading; two hold lines that
\* start with a digit
DifferentialDrafts ==
    {"FINDINGS:\nEnhancing mass in the left frontal lobe.",
     "FINDINGS:\nEnhancing mass.\n2 nodules in the right lung",
     "FINDINGS:\nEnhancing mass.\n1. Follow-up MRI in 3 months."}

\* the Add button while the draft has fewer than MaxDraftLines lines
AddToDraft(i) == Len(split_lines(report_draft)) < MaxDraftLines /\ add_dx(i)

NextDifferentials ==
    \/ \E d \in DifferentialDrafts : EditDraft(d)
    \/ Clear
    \/ AISuggestions
    \/ \E i \in 0..5 : AddToDraft(i)

SpecDifferentials == InitHistory /\ [][NextDifferentials]_vars

\* the lines of a draft after its DIFFERENTIAL DIAGNOSIS: line, none when the
\* draft has no such line
ItemsAfterHeading(draft) ==
    LET lines == split_lines(draft)
        at == {k \in 1..Len(lines) : lines[k] = "DIFFERENTIAL DIAGNOSIS:"}
    IN  IF at = {} THEN <<>> ELSE SubSeq(lines, Min(at) + 1, Len(lines))

\* C30: from a draft without a DIFFERENTIAL DIAGNOSIS: heading, k Add
\* actions in a row append one heading followed by k items numbered 1..k in
\* the order added.  Step by step: each Add keeps the text already in the
\* draft and appends the chosen suggestion as item k + 1 after the k items
\* there are, with the heading before it when there is none yet, so that the
\* draft has the heading exactly once.
C30_AddAppendsNextNumberedItem ==
    [][\A i \in 0..5 :
          add_dx(i)
          => \E results \in differential_results :
                LET dx == results[i + 1]
                    k == Len(ItemsAfterHeading(report_draft))
                    item == ToString(k + 1) \o ". " \o dx.diagnosis \o " - " \o dx.features
                IN  /\ report_draft'
                         = report_draft
                           \o (IF k = 0 THEN "\n\nDIFFERENTIAL DIAGNOSIS:\n" ELSE "\n")
                           \o item
                    /\ Occurrences(report_draft', "DIFFERENTIAL DIAGNOSIS:") = 1
                    /\ Len(ItemsAfterHeading(report_draft')) = k + 1
                    /\ \A n \in 1..(k + 1) :
                          StartsWith(ItemsAfterHeading(report_draft')[n],
                                     ToString(n) \o ". ")]_vars

\* three suggestions added, the second one first, to a draft that already
\* had a numbered recommendation
C30_Witness ==
    /\ StartsWith(report_draft, "FINDINGS:\nEnhancing mass.\n1. Follow-up MRI in 3 months.\n\n")
    /\ ItemsAfterHeading(report_draft)
          = <<"1. Metastasis - Multiple, at gray-white junction",
              "2. Meningioma - Dural-based, homogeneous enhancement",
              "3. Metastasis - Multiple, at gray-white junction">>

====
